---- MODULE Spec2Model ----
(***************************************************************************)
(* A model of the saramin job-board backend (Express + Sequelize).         *)
(*                                                                         *)
(* The store is the relational database; every HTTP request is one action  *)
(* that runs the route's middleware chain (authenticateJWT, then the       *)
(* handler) against the store and records the response in `last`. Where    *)
(* requests overlap, a request is two actions, split at the await between  *)
(* its read and its write.                                                 *)
(*                                                                         *)
(*   Spec           the application lifecycle   (routes/applications.js)   *)
(*   SpecJobs       the job catalog             (routes/jobs.js)           *)
(*   SpecReviews    job reviews                 (routes/jobreview.js)      *)
(*   SpecGate       routing and the auth gate   (server.js, middleware)    *)
(*   SpecTokens     login, refresh and roles    (routes/auth.js)           *)
(*   SpecAuth       register, login, profile    (routes/auth.js)           *)
(*   SpecRegister   overlapping registrations   (routes/auth.js)           *)
(*   SpecListing    listings and summaries      (routes/applications.js)   *)
(*   SpecInterviews interviews                  (routes/auth.js)           *)
(*   SpecBookmarks  bookmarks                   (routes/bookmarks.js)      *)
(*   SpecSeed       startup and the crawler     (server.js, crawler)       *)
(*   SpecRace       overlapping applications    (routes/applications.js)   *)
(*   SpecFeedback   interviews over time        (routes/auth.js)           *)
(*   SpecRoles      roles of stored users       (routes/auth.js)           *)
(*   SpecLeaving    profile deletion            (routes/auth.js, models)   *)
(*   SpecCrawl      the crawl, await by await   (server.js, crawler)       *)
(***************************************************************************)
EXTENDS Integers, Sequences, FiniteSets, TLC

\* ------------------------------------------------------------------ bounds
MaxUsers == 2          \* registered users 1..MaxUsers
SeedJobs == 1          \* jobs 1..SeedJobs are in the catalog after startup
MaxApplications == 2   \* cap on rows of the applications table
MaxJobs == 2           \* cap on the job ids POST /jobs hands out
MaxViews == 2          \* cap on a job's views counter
MaxReviews == 2        \* cap on rows of the jobreviews table

Users == 1..MaxUsers
NoUser == 0

\* ------------------------------------------------------------------ state
VARIABLES
    jobs,               \* the jobs table: a set of rows [id, views, body]
    nextJobId,          \* the jobs table's AUTO_INCREMENT counter
    build,              \* what the deployment fixes, not the repository:
                        \* ormAcceptsArrays, whether the ORM stores an array in
                        \* a STRING column or rejects it as a string violation;
                        \* sqlStrict, whether the database rejects a value that
                        \* is no integer for an INTEGER column or stores 0
    reviews,            \* the jobreviews table: rows [id, jobId, userId, rating]
    nextReviewId,       \* the jobreviews table's AUTO_INCREMENT counter
    viewed,             \* per job id: detail views answered 200 since the
                        \* job's creation or last edit answered 200
    applications,       \* the applications table: rows [id, userId, jobId, status]
    nextApplicationId,  \* the applications table's AUTO_INCREMENT counter
    users,              \* the users table: rows [id, email, password, name, role]
    nextUserId,         \* the users table's AUTO_INCREMENT counter
    passwordSet,        \* per user id: the password the last answered
                        \* register or profile update set for it
    interviews,         \* the interviews table: rows [id, applicationId,
                        \* userId, interview_status, feedback]
    nextInterviewId,    \* the interviews table's AUTO_INCREMENT counter
    bookmarks,          \* the bookmarks table: rows [id, userId, jobId]
    nextBookmarkId,     \* the bookmarks table's AUTO_INCREMENT counter
    toggles,            \* per user id and job id: the POST /bookmarks of the
                        \* user for the job answered 201 or 200 so far
    pending,            \* per connection: the request that is between two of
                        \* its awaits, with what it has read so far
    serving,            \* whether the process is up and listening
    seeder,             \* crawl_saramin as startServer runs it: where it is,
                        \* what Job.count gave, whether the table was
                        \* recreated, the pages it has requested, the
                        \* session's FOREIGN_KEY_CHECKS, and per link and
                        \* stage the items whose callback waits on the
                        \* database
    last                \* the last request and its response

jobVars == <<jobs, nextJobId, viewed>>
reviewVars == <<reviews, nextReviewId>>
appVars == <<applications, nextApplicationId>>
userVars == <<users, nextUserId, passwordSet>>
interviewVars == <<interviews, nextInterviewId>>
bookmarkVars == <<bookmarks, nextBookmarkId, toggles>>
restVars == <<userVars, interviewVars, bookmarkVars, pending, serving, seeder>>
vars == <<jobs, nextJobId, build, viewed, reviews, nextReviewId,
          applications, nextApplicationId, users, nextUserId, passwordSet,
          interviews, nextInterviewId, bookmarks, nextBookmarkId, toggles,
          pending,
          serving, seeder, last>>

\* Application.status values: '지원 완료' and '지원 취소'.
Submitted == "submitted"
Withdrawn == "withdrawn"

\* ------------------------------------------------------- the auth gate
Roles == {"user", "companyuser", "admin"}

\* What a client can put in the authorization header: nothing, or a value.
\* A value is described by what jsonwebtoken's verify looks at: whether it
\* is a JWT at all (the header is handed over whole, so "Bearer <jwt>" is
\* not), whether the signature matches JWT_SECRET, whether exp has passed,
\* and its payload.
NoToken == [present |-> FALSE]
MakeToken(sig, expired, id, role) ==
    [present |-> TRUE, jwt |-> TRUE, sigOk |-> sig, expired |-> expired,
     id |-> id, role |-> role]
BearerHeader(token) == [token EXCEPT !.jwt = FALSE]
UserTokens ==
    {MakeToken(TRUE, FALSE, u, "user") : u \in Users}
    \cup {MakeToken(TRUE, TRUE, 1, "user"), MakeToken(FALSE, FALSE, 1, "user")}

\* jwt.verify(token, secret, cb): the token is decoded, then its signature
\* is checked, then its expiry.
jwtVerify(token) ==
    IF ~token.jwt THEN [err |-> "JsonWebTokenError"]
    ELSE IF ~token.sigOk THEN [err |-> "JsonWebTokenError"]
    ELSE IF token.expired THEN [err |-> "TokenExpiredError"]
    ELSE [err |-> "none", decoded |-> [id |-> token.id, role |-> token.role]]

NoClaims == [id |-> NoUser, role |-> "none"]

\* authenticateJWT with the expired case answered like any other failure.
authenticateJWT_ExpiredForbidden(token) ==
    IF ~token.present
    THEN [sent |-> <<403>>, nexts |-> 0, user |-> NoClaims]
    ELSE LET v == jwtVerify(token) IN
         IF v.err # "none"
         THEN [sent |-> <<403>>, nexts |-> 0, user |-> NoClaims]
         ELSE [sent |-> <<>>, nexts |-> 1, user |-> v.decoded]

\* authenticateJWT without the return in front of its "invalid token"
\* response: it answers and goes on to the handler.
authenticateJWT_NoReturn(token) ==
    IF ~token.present
    THEN [sent |-> <<403>>, nexts |-> 0, user |-> NoClaims]
    ELSE LET v == jwtVerify(token) IN
         IF v.err # "none"
         THEN IF v.err = "TokenExpiredError"
              THEN [sent |-> <<401>>, nexts |-> 0, user |-> NoClaims]
              ELSE [sent |-> <<403>>, nexts |-> 1, user |-> NoClaims]
         ELSE [sent |-> <<>>, nexts |-> 1, user |-> v.decoded]

\* authenticateJWT(req, res, next): the responses it sends, the number of
\* times it calls next, and req.user as it leaves it.
authenticateJWT(token) ==
    IF ~token.present
    THEN [sent |-> <<403>>, nexts |-> 0, user |-> NoClaims]
    ELSE LET v == jwtVerify(token) IN
         IF v.err # "none"
         THEN IF v.err = "TokenExpiredError"
              THEN [sent |-> <<401>>, nexts |-> 0, user |-> NoClaims]
              ELSE [sent |-> <<403>>, nexts |-> 0, user |-> NoClaims]
         ELSE [sent |-> <<>>, nexts |-> 1, user |-> v.decoded]

\* ------------------------------------------------------- store helpers
JobExists(id) == \E j \in jobs : j.id = id

\* Application.findOne({ where: { userId, jobId } }): the matching rows; the
\* query has no ORDER BY, so any of them may be the one returned.
ApplicationsOf(userId, jobId) ==
    {a \in applications : a.userId = userId /\ a.jobId = jobId}

\* ------------------------------------------------------- request bodies
\* A body field is [k, v]: k is the JSON kind of the value sent ("absent"
\* when the key is missing) and v what the schema looks at: a string's
\* length, a number's value, an array's length, 1 for an ISO date, the index
\* of an enum value (0: none of them), and for a URI the link it names.
Absent == [k |-> "absent", v |-> 0]
Str(n) == [k |-> "str", v |-> n]
Num(n) == [k |-> "num", v |-> n]
Arr(n) == [k |-> "arr", v |-> n]
Uri(l) == [k |-> "uri", v |-> l]
Null == [k |-> "null", v |-> 0]

EmptyBody ==
    [title |-> Absent, company |-> Absent, location |-> Absent,
     experience |-> Absent, education |-> Absent, employmentType |-> Absent,
     deadline |-> Absent, techStack |-> Absent, salary |-> Absent,
     description |-> Absent, link |-> Absent]

Respond(op, user, arg, status) ==
    last' = [op |-> op, user |-> user, arg |-> arg,
             status |-> status, body |-> EmptyBody, msgs |-> <<>>]

RespondBody(op, user, arg, status, body, msgs) ==
    last' = [op |-> op, user |-> user, arg |-> arg,
             status |-> status, body |-> body, msgs |-> msgs]

\* ------------------------------------------------ routes/applications.js
NoJobId == 0
ApplyArgs == 0..(SeedJobs + 1)

\* ApplyHandler without the lookup of an existing application.
ApplyHandler_NoLookup(user, jobId) ==
    IF jobId = NoJobId
    THEN /\ Respond("apply", user, jobId, 400)
         /\ UNCHANGED <<applications, nextApplicationId>>
    ELSE IF ~JobExists(jobId)
    THEN /\ Respond("apply", user, jobId, 404)
         /\ UNCHANGED <<applications, nextApplicationId>>
    ELSE /\ Cardinality(applications) < MaxApplications
         /\ applications' = applications \cup
                {[id |-> nextApplicationId, userId |-> user, jobId |-> jobId,
                  status |-> Submitted]}
         /\ nextApplicationId' = nextApplicationId + 1
         /\ Respond("apply", user, jobId, 201)

\* ApplyHandler that rejects every existing application, withdrawn or not.
ApplyHandler_NoReapply(user, jobId) ==
    IF jobId = NoJobId
    THEN /\ Respond("apply", user, jobId, 400)
         /\ UNCHANGED <<applications, nextApplicationId>>
    ELSE IF ~JobExists(jobId)
    THEN /\ Respond("apply", user, jobId, 404)
         /\ UNCHANGED <<applications, nextApplicationId>>
    ELSE IF ApplicationsOf(user, jobId) # {}
    THEN /\ Respond("apply", user, jobId, 400)
         /\ UNCHANGED <<applications, nextApplicationId>>
    ELSE /\ Cardinality(applications) < MaxApplications
         /\ applications' = applications \cup
                {[id |-> nextApplicationId, userId |-> user, jobId |-> jobId,
                  status |-> Submitted]}
         /\ nextApplicationId' = nextApplicationId + 1
         /\ Respond("apply", user, jobId, 201)

\* The handler of POST /applications, for the authenticated caller `user`.
ApplyHandler(user, jobId) ==
    IF jobId = NoJobId
    THEN /\ Respond("apply", user, jobId, 400)
         /\ UNCHANGED <<applications, nextApplicationId>>
    ELSE IF ~JobExists(jobId)
    THEN /\ Respond("apply", user, jobId, 404)
         /\ UNCHANGED <<applications, nextApplicationId>>
    ELSE IF ApplicationsOf(user, jobId) # {}
    THEN \E existingApplication \in ApplicationsOf(user, jobId) :
            IF existingApplication.status = Withdrawn
            THEN /\ applications' =
                        (applications \ {existingApplication}) \cup
                        {[existingApplication EXCEPT !.status = Submitted]}
                 /\ Respond("apply", user, jobId, 200)
                 /\ UNCHANGED nextApplicationId
            ELSE /\ Respond("apply", user, jobId, 400)
                 /\ UNCHANGED <<applications, nextApplicationId>>
    ELSE /\ Cardinality(applications) < MaxApplications
         /\ applications' = applications \cup
                {[id |-> nextApplicationId, userId |-> user, jobId |-> jobId,
                  status |-> Submitted]}
         /\ nextApplicationId' = nextApplicationId + 1
         /\ Respond("apply", user, jobId, 201)

\* POST /applications: authenticateJWT, then the handler.
Apply(token, jobId) ==
    LET gate == authenticateJWT(token) IN
    /\ UNCHANGED <<jobVars, reviewVars, build, restVars>>
    /\ IF gate.nexts = 0
       THEN /\ Respond("apply", NoUser, jobId, gate.sent[1])
            /\ UNCHANGED <<applications, nextApplicationId>>
       ELSE ApplyHandler(gate.user.id, jobId)

WithdrawArgs == 1..(MaxApplications + 1)

\* WithdrawHandler that writes a third status.
WithdrawHandler_OtherStatus(user, id) ==
    LET jobId == id IN
    IF ApplicationsOf(user, jobId) = {}
    THEN /\ Respond("withdraw", user, id, 404)
         /\ UNCHANGED <<applications, nextApplicationId>>
    ELSE \E application \in ApplicationsOf(user, jobId) :
            /\ applications' =
                   (applications \ {application}) \cup
                   {[application EXCEPT !.status = "deleted"]}
            /\ Respond("withdraw", user, id, 200)
            /\ UNCHANGED nextApplicationId

\* The handler of DELETE /applications/:id. The path parameter is read into
\* `jobId` and the lookup is by { jobId, userId }.
WithdrawHandler(user, id) ==
    LET jobId == id IN
    IF ApplicationsOf(user, jobId) = {}
    THEN /\ Respond("withdraw", user, id, 404)
         /\ UNCHANGED <<applications, nextApplicationId>>
    ELSE \E application \in ApplicationsOf(user, jobId) :
            IF application.userId # user
            THEN /\ Respond("withdraw", user, id, 403)
                 /\ UNCHANGED <<applications, nextApplicationId>>
            ELSE /\ applications' =
                        (applications \ {application}) \cup
                        {[application EXCEPT !.status = Withdrawn]}
                 /\ Respond("withdraw", user, id, 200)
                 /\ UNCHANGED nextApplicationId

\* DELETE /applications/:id: authenticateJWT, then the handler.
Withdraw(token, id) ==
    LET gate == authenticateJWT(token) IN
    /\ UNCHANGED <<jobVars, reviewVars, build, restVars>>
    /\ IF gate.nexts = 0
       THEN /\ Respond("withdraw", NoUser, id, gate.sent[1])
            /\ UNCHANGED <<applications, nextApplicationId>>
       ELSE WithdrawHandler(gate.user.id, id)

\* The handler of GET /applications. A query parameter is Absent or a value.
\* An entry is an application without its id, with the applicant's name and
\* email when the caller's role is 'company'.
Applicant(userId) ==
    IF \E u \in users : u.id = userId
    THEN LET u == CHOOSE x \in users : x.id = userId
         IN [name |-> u.name, email |-> u.email]
    ELSE Null

ListedEntry(a, isCompany) ==
    [userId |-> a.userId, jobId |-> a.jobId, status |-> a.status,
     user |-> IF isCompany THEN Applicant(a.userId) ELSE Absent]

\* The where clause taken from the query string as it is.
ListFilter_TrustsQuery(claims, query) ==
    [status |-> query.status, jobId |-> query.jobId, userId |-> query.userId]

\* The where clause: Absent for a column that is not filtered.
ListFilter(claims, query) ==
    LET isCompany == claims.role = "company" IN
    [status |-> query.status,
     jobId |-> query.jobId,
     userId |-> IF query.userId # Absent /\ isCompany THEN query.userId
                ELSE IF ~isCompany THEN Num(claims.id)
                ELSE Absent]

\* A status as it travels in the query string.
StatusParam(status) == Str(IF status = Submitted THEN 1 ELSE 2)

Matches(a, filter) ==
    /\ filter.status = Absent \/ filter.status = StatusParam(a.status)
    /\ filter.jobId = Absent \/ filter.jobId = Num(a.jobId)
    /\ filter.userId = Absent \/ filter.userId = Num(a.userId)

ListHandler(claims, query) ==
    LET isCompany == claims.role = "company"
        filter == ListFilter(claims, query)
    IN RespondBody("list", claims.id, 0, 200,
                   [role |-> claims.role, query |-> query,
                    data |-> {ListedEntry(a, isCompany) :
                                 a \in {x \in applications : Matches(x, filter)}}],
                   <<>>)

\* GET /applications: authenticateJWT, then the handler.
ListApplications(token, query) ==
    LET gate == authenticateJWT(token) IN
    /\ UNCHANGED <<jobVars, appVars, reviewVars, build, restVars>>
    /\ IF gate.nexts = 0
       THEN Respond("list", NoUser, 0, gate.sent[1])
       ELSE ListHandler(gate.user, query)

\* authorizeRoles(roles)(req, res, next): TRUE when it calls next.
authorizeRoles(roles, claims) == claims.role \in roles

\* SELECT status, COUNT(id) ... WHERE jobId GROUP BY status: one entry for
\* every status that a row of the job has.
SummaryCounts(jobId) ==
    {[status |-> st,
      count |-> Cardinality({a \in applications :
                                a.jobId = jobId /\ a.status = st})] :
        st \in {a.status : a \in {x \in applications : x.jobId = jobId}}}

\* The handler of GET /applications/job/:jobId/summary.
SummaryHandler(claims, jobId) ==
    IF claims.role = "companyuser" \/ claims.role = "admin"
    THEN IF ~JobExists(jobId)
         THEN RespondBody("summary", claims.id, jobId, 403,
                          [role |-> claims.role, data |-> {}], <<>>)
         ELSE RespondBody("summary", claims.id, jobId, 200,
                          [role |-> claims.role, data |-> SummaryCounts(jobId)],
                          <<>>)
    ELSE RespondBody("summary", claims.id, jobId, 403,
                     [role |-> claims.role, data |-> {}], <<>>)

\* The summary route with the role gate left out of its chain.
Summarize_NoRoleGate(token, jobId) ==
    LET gate == authenticateJWT(token) IN
    /\ UNCHANGED <<jobVars, appVars, reviewVars, build, restVars>>
    /\ IF gate.nexts = 0
       THEN Respond("summary", NoUser, jobId, gate.sent[1])
       ELSE IF ~JobExists(jobId)
       THEN RespondBody("summary", gate.user.id, jobId, 403,
                        [role |-> gate.user.role, data |-> {}], <<>>)
       ELSE RespondBody("summary", gate.user.id, jobId, 200,
                        [role |-> gate.user.role, data |-> SummaryCounts(jobId)],
                        <<>>)

\* GET /applications/job/:jobId/summary: authenticateJWT,
\* authorizeRoles(['companyuser', 'admin']), then the handler.
Summarize(token, jobId) ==
    LET gate == authenticateJWT(token) IN
    /\ UNCHANGED <<jobVars, appVars, reviewVars, build, restVars>>
    /\ IF gate.nexts = 0
       THEN Respond("summary", NoUser, jobId, gate.sent[1])
       ELSE IF ~authorizeRoles({"companyuser", "admin"}, gate.user)
       THEN RespondBody("summary", gate.user.id, jobId, 403,
                        [role |-> gate.user.role, data |-> {}], <<>>)
       ELSE SummaryHandler(gate.user, jobId)

\* --------------------------------------------------------- routes/jobs.js
JobIdSpace == 1..(SeedJobs + MaxJobs + 1)
\* The links request bodies name: the seeded job's and one more.
Links == 1..(SeedJobs + 1)

Enum(i) == [k |-> "enum", v |-> i]
Date(ok) == [k |-> "date", v |-> ok]

\* Limits of the Joi schema of POST /jobs and PUT /jobs/:id.
StringMin == 3
StringMax == 255
DescriptionMin == 10
EnumValues == 4

\* Joi.string().min(lo).max(hi).required()
StringErrors(f, x, lo, hi) ==
    IF x.k = "absent" THEN << <<f, "any.required">> >>
    ELSE IF x.k \notin {"str", "uri"} THEN << <<f, "string.base">> >>
    ELSE IF x.k = "str" /\ x.v = 0 THEN << <<f, "string.empty">> >>
    ELSE IF x.k = "str" /\ x.v < lo THEN << <<f, "string.min">> >>
    ELSE IF x.k = "str" /\ x.v > hi THEN << <<f, "string.max">> >>
    ELSE <<>>

\* Joi.string().valid('full-time', 'part-time', 'contract', 'internship').required()
EnumErrors(f, x) ==
    IF x.k = "absent" THEN << <<f, "any.required">> >>
    ELSE IF x.k = "enum" /\ x.v \in 1..EnumValues THEN <<>>
    ELSE << <<f, "any.only">> >>

\* Joi.date().iso().required()
DateErrors(f, x) ==
    IF x.k = "absent" THEN << <<f, "any.required">> >>
    ELSE IF x.k # "date" THEN << <<f, "date.base">> >>
    ELSE IF x.v # 1 THEN << <<f, "date.format">> >>
    ELSE <<>>

\* Joi.array().items(Joi.string()).min(1).required()
ArrayErrors(f, x) ==
    IF x.k = "absent" THEN << <<f, "any.required">> >>
    ELSE IF x.k # "arr" THEN << <<f, "array.base">> >>
    ELSE IF x.v < 1 THEN << <<f, "array.min">> >>
    ELSE <<>>

\* Joi.number().positive().required()
NumberErrors(f, x) ==
    IF x.k = "absent" THEN << <<f, "any.required">> >>
    ELSE IF x.k # "num" THEN << <<f, "number.base">> >>
    ELSE IF x.v <= 0 THEN << <<f, "number.positive">> >>
    ELSE <<>>

\* Joi.string().uri().required()
UriErrors(f, x) ==
    IF x.k = "absent" THEN << <<f, "any.required">> >>
    ELSE IF x.k = "uri" THEN <<>>
    ELSE IF x.k # "str" THEN << <<f, "string.base">> >>
    ELSE IF x.v = 0 THEN << <<f, "string.empty">> >>
    ELSE << <<f, "string.uri">> >>

SchemaKeys ==
    <<"title", "company", "location", "experience", "education",
      "employmentType", "deadline", "techStack", "salary", "description",
      "link">>

\* The schema's rule for one key, applied to the value sent for it.
FieldErrors(f, x) ==
    CASE f \in {"title", "company", "location", "experience", "education"} ->
            StringErrors(f, x, StringMin, StringMax)
      [] f = "employmentType" -> EnumErrors(f, x)
      [] f = "deadline" -> DateErrors(f, x)
      [] f = "techStack" -> ArrayErrors(f, x)
      [] f = "salary" -> NumberErrors(f, x)
      [] f = "description" ->
            StringErrors(f, x, DescriptionMin, StringMax * StringMax)
      [] f = "link" -> UriErrors(f, x)

RECURSIVE ValidateFrom(_, _)
ValidateFrom(body, i) ==
    IF i > Len(SchemaKeys) THEN <<>>
    ELSE FieldErrors(SchemaKeys[i], body[SchemaKeys[i]]) \o ValidateFrom(body, i + 1)

ValidBody(l) ==
    [title |-> Str(5), company |-> Str(5), location |-> Str(5),
     experience |-> Str(5), education |-> Str(5), employmentType |-> Enum(1),
     deadline |-> Date(1), techStack |-> Arr(1), salary |-> Num(1),
     description |-> Str(12), link |-> Uri(l)]

\* What validateAndNormalizeJobData stores for a listing item: trimmed
\* strings, the deadline as a YYYY-MM-DD string.
SeedBody(l) ==
    [title |-> Str(5), company |-> Str(5), location |-> Str(5),
     experience |-> Str(5), education |-> Str(5), employmentType |-> Str(5),
     deadline |-> Date(1), techStack |-> Str(5), salary |-> Str(5),
     description |-> Str(5), link |-> Uri(l)]

\* The bodies clients send: well-formed ones, one whose link is no URI, and
\* one that breaks the schema in two fields.
ValidBodies == {ValidBody(l) : l \in Links}
InvalidBodies ==
    { [ValidBody(1) EXCEPT !.link = Str(7)],
      [ValidBody(1) EXCEPT !.salary = Num(0), !.title = Str(StringMax + 1)] }
Bodies == ValidBodies \cup InvalidBodies

\* schema.validate(req.body, { abortEarly: false }): error.details, every
\* violation, in the order of the schema's keys; worked out once for each of
\* the bodies.
ValidationOf == [b \in Bodies |-> ValidateFrom(b, 1)]
Validate(body) == ValidationOf[body]

JobsWithId(id) == {j \in jobs : j.id = id}

\* The unique index on jobs.link, for a row `id` about to hold `link`.
LinkTaken(id, link) == \E j \in jobs : j.id # id /\ j.body.link = link

\* The handler of GET /jobs/:id.
ViewHandler(user, id) ==
    IF JobsWithId(id) = {}
    THEN /\ Respond("view", user, id, 404)
         /\ UNCHANGED <<jobs, nextJobId>>
    ELSE \E job \in JobsWithId(id) :
            /\ job.views < MaxViews
            /\ jobs' = (jobs \ {job}) \cup {[job EXCEPT !.views = job.views + 1]}
            /\ Respond("view", user, id, 200)
            /\ UNCHANGED nextJobId

\* EditHandler that looks the job up before it validates the body.
EditHandler_LookupFirst(user, id, body) ==
    IF JobsWithId(id) = {}
    THEN /\ RespondBody("edit", user, id, 404, body, <<>>)
         /\ UNCHANGED <<jobs, nextJobId>>
    ELSE IF Validate(body) # <<>>
    THEN /\ RespondBody("edit", user, id, 400, body, Validate(body))
         /\ UNCHANGED <<jobs, nextJobId>>
    ELSE \E job \in JobsWithId(id) :
            IF ~build.ormAcceptsArrays \/ LinkTaken(id, body.link)
            THEN /\ RespondBody("edit", user, id, 500, body, <<>>)
                 /\ UNCHANGED <<jobs, nextJobId>>
            ELSE /\ jobs' = (jobs \ {job}) \cup
                            {[id |-> id, views |-> 0, body |-> body]}
                 /\ RespondBody("edit", user, id, 200, body, <<>>)
                 /\ UNCHANGED nextJobId

\* EditHandler that keeps the views counter.
EditHandler_KeepsViews(user, id, body) ==
    LET errors == Validate(body) IN
    IF errors # <<>>
    THEN /\ RespondBody("edit", user, id, 400, body, errors)
         /\ UNCHANGED <<jobs, nextJobId>>
    ELSE IF JobsWithId(id) = {}
    THEN /\ RespondBody("edit", user, id, 404, body, <<>>)
         /\ UNCHANGED <<jobs, nextJobId>>
    ELSE \E job \in JobsWithId(id) :
            IF ~build.ormAcceptsArrays \/ LinkTaken(id, body.link)
            THEN /\ RespondBody("edit", user, id, 500, body, <<>>)
                 /\ UNCHANGED <<jobs, nextJobId>>
            ELSE /\ jobs' = (jobs \ {job}) \cup
                            {[id |-> id, views |-> job.views, body |-> body]}
                 /\ RespondBody("edit", user, id, 200, body, <<>>)
                 /\ UNCHANGED nextJobId

\* The handler of PUT /jobs/:id. job.save() validates the values against the
\* columns' types first: techStack is an array here and the column a STRING,
\* which the ORM's schema validation rejects or serialises depending on its
\* version (build.ormAcceptsArrays); the unique index on link is the database's.
EditHandler(user, id, body) ==
    LET errors == Validate(body) IN
    IF errors # <<>>
    THEN /\ RespondBody("edit", user, id, 400, body, errors)
         /\ UNCHANGED <<jobs, nextJobId>>
    ELSE IF JobsWithId(id) = {}
    THEN /\ RespondBody("edit", user, id, 404, body, <<>>)
         /\ UNCHANGED <<jobs, nextJobId>>
    ELSE \E job \in JobsWithId(id) :
            IF ~build.ormAcceptsArrays \/ LinkTaken(id, body.link)
            THEN /\ RespondBody("edit", user, id, 500, body, <<>>)
                 /\ UNCHANGED <<jobs, nextJobId>>
            ELSE /\ jobs' = (jobs \ {job}) \cup
                            {[id |-> id, views |-> 0, body |-> body]}
                 /\ RespondBody("edit", user, id, 200, body, <<>>)
                 /\ UNCHANGED nextJobId

\* The handler of POST /jobs. The response of a 201 carries the new row's id.
CreateHandler(user, body) ==
    LET errors == Validate(body) IN
    IF errors # <<>>
    THEN /\ RespondBody("create", user, 0, 400, body, errors)
         /\ UNCHANGED <<jobs, nextJobId>>
    ELSE IF ~build.ormAcceptsArrays \/ LinkTaken(0, body.link)
    THEN /\ RespondBody("create", user, 0, 500, body, <<>>)
         /\ UNCHANGED <<jobs, nextJobId>>
    ELSE /\ nextJobId <= MaxJobs
         /\ jobs' = jobs \cup {[id |-> nextJobId, views |-> 0, body |-> body]}
         /\ nextJobId' = nextJobId + 1
         /\ RespondBody("create", user, nextJobId, 201, body, <<>>)

\* The handler of DELETE /jobs/:id.
DeleteHandler(user, id) ==
    IF JobsWithId(id) = {}
    THEN /\ Respond("delete", user, id, 404)
         /\ UNCHANGED <<jobs, nextJobId>>
    ELSE \E job \in JobsWithId(id) :
            /\ jobs' = jobs \ {job}
            /\ Respond("delete", user, id, 200)
            /\ UNCHANGED nextJobId

\* The count of answered detail views, kept beside the store: a view answered
\* 200 adds one; an edit answered 200, a create answered 201 or a delete
\* answered 200 starts anew.
ObserveViews ==
    viewed' = [i \in JobIdSpace |->
                 IF last'.arg # i THEN viewed[i]
                 ELSE IF last'.op = "view" /\ last'.status = 200 THEN viewed[i] + 1
                 ELSE IF last'.op = "edit" /\ last'.status = 200 THEN 0
                 ELSE IF last'.op = "create" /\ last'.status = 201 THEN 0
                 ELSE IF last'.op = "delete" /\ last'.status = 200 THEN 0
                 ELSE viewed[i]]

\* GET /jobs/:id: authenticateJWT, then the handler.
ViewJob(token, id) ==
    LET gate == authenticateJWT(token) IN
    /\ UNCHANGED <<appVars, reviewVars, build, restVars>>
    /\ IF gate.nexts = 0
       THEN /\ Respond("view", NoUser, id, gate.sent[1])
            /\ UNCHANGED <<jobs, nextJobId>>
       ELSE ViewHandler(gate.user.id, id)
    /\ ObserveViews

\* PUT /jobs/:id: authenticateJWT, then the handler.
EditJob(token, id, body) ==
    LET gate == authenticateJWT(token) IN
    /\ UNCHANGED <<appVars, reviewVars, build, restVars>>
    /\ IF gate.nexts = 0
       THEN /\ Respond("edit", NoUser, id, gate.sent[1])
            /\ UNCHANGED <<jobs, nextJobId>>
       ELSE EditHandler(gate.user.id, id, body)
    /\ ObserveViews

\* POST /jobs: authenticateJWT, then the handler.
CreateJob(token, body) ==
    LET gate == authenticateJWT(token) IN
    /\ UNCHANGED <<appVars, reviewVars, build, restVars>>
    /\ IF gate.nexts = 0
       THEN /\ Respond("create", NoUser, 0, gate.sent[1])
            /\ UNCHANGED <<jobs, nextJobId>>
       ELSE CreateHandler(gate.user.id, body)
    /\ ObserveViews

\* DELETE /jobs/:id: authenticateJWT, then the handler.
DeleteJob(token, id) ==
    LET gate == authenticateJWT(token) IN
    /\ UNCHANGED <<appVars, reviewVars, build, restVars>>
    /\ IF gate.nexts = 0
       THEN /\ Respond("delete", NoUser, id, gate.sent[1])
            /\ UNCHANGED <<jobs, nextJobId>>
       ELSE DeleteHandler(gate.user.id, id)
    /\ ObserveViews

\* ---------------------------------------------------- routes/jobreview.js
RatingMin == 1
RatingMax == 5

\* The ratings clients send: none, null, a string that is no number, and
\* numbers in and around the range.
Ratings ==
    {Absent, Null, Str(3)} \cup
    {Num(n) : n \in {RatingMin - 1, RatingMin, RatingMax, RatingMax + 1}}

\* JavaScript's `rating < 1 || rating > 5`: null compares as 0; undefined and
\* a string that is no number compare as NaN, for which both tests are false.
RatingGuard(rating) ==
    LET n == IF rating.k = "num" THEN rating.v ELSE 0 IN
    /\ rating.k \in {"num", "null"}
    /\ (n < RatingMin \/ n > RatingMax)

\* JobReview.create: allowNull: false on jobId and rating; validate { min, max }
\* on rating, which the ORM's validators pass for a value that parses to NaN;
\* then the INSERT, with its foreign key on jobId and its INTEGER column.
\* ok is FALSE for a rejected promise; otherwise rating is the value stored.
Rejected == [ok |-> FALSE, rating |-> 0]
Stored(n) == [ok |-> TRUE, rating |-> n]

ReviewCreate(jobId, rating) ==
    IF jobId = NoJobId \/ rating.k \in {"absent", "null"} THEN Rejected
    ELSE IF rating.k = "num" /\ (rating.v < RatingMin \/ rating.v > RatingMax)
    THEN Rejected
    ELSE IF ~JobExists(jobId) THEN Rejected
    ELSE IF rating.k = "num" THEN Stored(rating.v)
    ELSE IF build.sqlStrict THEN Rejected
    ELSE Stored(0)

\* The handler of POST /jobreviews.
ReviewHandler(user, jobId, rating) ==
    IF RatingGuard(rating)
    THEN /\ RespondBody("review", user, jobId, 400, [rating |-> rating], <<>>)
         /\ UNCHANGED reviewVars
    ELSE LET stored == ReviewCreate(jobId, rating) IN
         IF ~stored.ok
         THEN /\ RespondBody("review", user, jobId, 500, [rating |-> rating], <<>>)
              /\ UNCHANGED reviewVars
         ELSE /\ Cardinality(reviews) < MaxReviews
              /\ reviews' = reviews \cup
                    {[id |-> nextReviewId, jobId |-> jobId, userId |-> user,
                      rating |-> stored.rating]}
              /\ nextReviewId' = nextReviewId + 1
              /\ RespondBody("review", user, jobId, 201, [rating |-> rating], <<>>)

\* POST /jobreviews: authenticateJWT, then the handler.
PostReview(token, jobId, rating) ==
    LET gate == authenticateJWT(token) IN
    /\ UNCHANGED <<jobVars, appVars, build, restVars>>
    /\ IF gate.nexts = 0
       THEN /\ Respond("review", NoUser, jobId, gate.sent[1])
            /\ UNCHANGED reviewVars
       ELSE ReviewHandler(gate.user.id, jobId, rating)

\* ------------------------------------------------------------- routing
\* A route is its method and path and the chain express runs for it. A
\* link of the chain is a middleware, or the handler with what it does with
\* the data store: "none", "read" or "write".
Gate == [mw |-> "authenticateJWT", roles |-> {}, store |-> "none"]
Authorize(roles) == [mw |-> "authorizeRoles", roles |-> roles, store |-> "none"]
ValidateInput == [mw |-> "handleValidationErrors", roles |-> {}, store |-> "none"]
Handler(store) == [mw |-> "handler", roles |-> {}, store |-> store]
Route(name, chain) == [route |-> name, chain |-> chain]

AuthRoutes ==
    {Route("POST /auth/login", <<ValidateInput, Handler("read")>>),
     Route("POST /auth/refresh", <<Handler("none")>>),
     Route("PUT /auth/profile", <<Gate, Handler("write")>>),
     Route("POST /auth/register", <<ValidateInput, Handler("write")>>),
     Route("DELETE /auth/profile", <<Gate, Handler("write")>>)}

InterviewRoutes ==
    {Route("GET /interviews", <<Gate, Handler("read")>>),
     Route("POST /interviews", <<Gate, Handler("write")>>),
     Route("PUT /interviews/:applicationId", <<Gate, Handler("write")>>),
     Route("DELETE /interviews/:id", <<Gate, Handler("write")>>)}

JobsRoutes ==
    {Route("GET /jobs", <<Gate, Handler("read")>>),
     Route("GET /jobs/:id", <<Gate, Handler("write")>>),
     Route("PUT /jobs/:id", <<Gate, Handler("write")>>),
     Route("DELETE /jobs/:id", <<Gate, Handler("write")>>),
     Route("POST /jobs", <<Gate, Handler("write")>>)}

ApplicationsRoutes ==
    {Route("POST /applications", <<Gate, Handler("write")>>),
     Route("GET /applications", <<Gate, Handler("read")>>),
     Route("DELETE /applications/:id", <<Gate, Handler("write")>>),
     Route("GET /applications/job/:jobId/summary",
           <<Gate, Authorize({"companyuser", "admin"}), Handler("read")>>)}

CompanyRoutes ==
    {Route("GET /companies", <<Gate, Handler("read")>>),
     Route("GET /companies/:id", <<Gate, Handler("read")>>),
     Route("POST /companies", <<Gate, Handler("write")>>)}

BookmarksRoutes ==
    {Route("POST /bookmarks", <<Gate, Handler("write")>>),
     Route("GET /bookmarks", <<Gate, Handler("read")>>)}

JobreviewRoutes ==
    {Route("GET /jobreviews/:jobId", <<Gate, Handler("read")>>),
     Route("POST /jobreviews", <<Gate, Handler("write")>>)}

\* What server.js answers itself: the API documentation and the banner.
AppRoutes ==
    {Route("GET /api-docs", <<Handler("none")>>),
     Route("GET /", <<Handler("none")>>)}

\* The routers as server.js mounts them.
Routes ==
    AuthRoutes \cup JobsRoutes \cup ApplicationsRoutes \cup BookmarksRoutes
    \cup InterviewRoutes \cup CompanyRoutes \cup JobreviewRoutes \cup AppRoutes

\* A request on its way down a chain: req.user, the responses the gate sent
\* and its calls of next, every response sent so far by a middleware, and
\* the handler's runs with what they did with the store.
NewRequest(token) ==
    [token |-> token, claims |-> NoClaims, gateSent |-> <<>>, gateNexts |-> 0,
     sent |-> <<>>, handlerRuns |-> 0, store |-> "none"]

\* express running a chain from its i-th link: a middleware that does not
\* call next ends the request.
RECURSIVE RunChain(_, _, _, _)
RunChain(chain, i, inputOk, req) ==
    IF i > Len(chain) THEN req
    ELSE
    LET link == chain[i] IN
    IF link.mw = "authenticateJWT"
    THEN LET g == authenticateJWT(req.token)
             after == [req EXCEPT !.claims = g.user, !.gateSent = g.sent,
                                  !.gateNexts = g.nexts,
                                  !.sent = req.sent \o g.sent]
         IN IF g.nexts = 0 THEN after
            ELSE RunChain(chain, i + 1, inputOk, after)
    ELSE IF link.mw = "authorizeRoles"
    THEN IF req.claims.role \notin link.roles
         THEN [req EXCEPT !.sent = req.sent \o <<403>>]
         ELSE RunChain(chain, i + 1, inputOk, req)
    ELSE IF link.mw = "handleValidationErrors"
    THEN IF ~inputOk
         THEN [req EXCEPT !.sent = req.sent \o <<400>>]
         ELSE RunChain(chain, i + 1, inputOk, req)
    ELSE [req EXCEPT !.handlerRuns = req.handlerRuns + 1, !.store = link.store]

\* One request to one route. The rows a handler reads and writes are the
\* matter of the resource's own routes above; here the handler is the fact
\* that it ran and what kind of access to the store it makes.
Dispatch(r, token, inputOk) ==
    LET req == RunChain(r.chain, 1, inputOk, NewRequest(token)) IN
    /\ RespondBody(r.route, req.claims.id, 0,
                   IF req.sent = <<>> THEN 0 ELSE req.sent[1], req, <<>>)
    /\ UNCHANGED <<jobVars, appVars, reviewVars, build, restVars>>

\* ---------------------------------------------------------- routes/auth.js
PasswordMin == 6

\* What a body's email, password and name can be: an e-mail address, a
\* string that is none, a password with its text and its length, a name.
Email(i) == [k |-> "email", v |-> i]
NotEmail == [k |-> "str", v |-> 0]
Password(i, len) == [k |-> "str", v |-> i, len |-> len]
Emails == {Email(i) : i \in Users}
Passwords ==
    {Password(1, PasswordMin - 1), Password(2, PasswordMin),
     Password(3, PasswordMin + 1)}
Names == {Str(4)}

\* Buffer.from(password).toString('base64') and
\* Buffer.from(stored, 'base64').toString('utf-8').
ToBase64(password) == [b64 |-> password]
FromBase64(stored) == stored.b64

\* validateUserInput and handleValidationErrors: body('email').isEmail(),
\* body('password').isLength({ min: 6 }); a missing field fails its rule.
InputOk(email, password) ==
    /\ email.k = "email"
    /\ password.k = "str"
    /\ password.len >= PasswordMin

\* User.findOne({ where: { email } }).
UsersWithEmail(email) == {u \in users : u.email = email}

\* The payload login signs, and jwt.sign(payload, JWT_SECRET, { expiresIn }).
\* A payload without a role claim has role "none".
Payload(u) == [id |-> u.id, email |-> u.email, name |-> u.name, role |-> u.role]
SignToken(payload, ttl) ==
    [present |-> TRUE, jwt |-> TRUE, sigOk |-> TRUE, expired |-> FALSE,
     id |-> payload.id, role |-> payload.role, email |-> payload.email,
     name |-> payload.name, ttl |-> ttl]
ClaimsOf(token) ==
    [id |-> token.id, email |-> token.email, name |-> token.name,
     role |-> token.role]

\* What the auth routes record of a request: the fields sent and the tokens
\* the response carries.
AuthBody(email, password, name, tokens) ==
    [email |-> email, password |-> password, name |-> name, tokens |-> tokens]

\* POST /auth/login: the input validation, then the handler.
Login(email, password) ==
    /\ UNCHANGED <<jobVars, appVars, reviewVars, build, restVars>>
    /\ IF ~InputOk(email, password)
       THEN RespondBody("login", NoUser, 0, 400,
                        AuthBody(email, password, Absent, <<>>), <<>>)
       ELSE IF UsersWithEmail(email) = {}
       THEN RespondBody("login", NoUser, 0, 404,
                        AuthBody(email, password, Absent, <<>>), <<>>)
       ELSE \E u \in UsersWithEmail(email) :
               IF FromBase64(u.password) # password
               THEN RespondBody("login", NoUser, 0, 400,
                                AuthBody(email, password, Absent, <<>>), <<>>)
               ELSE RespondBody("login", u.id, 0, 200,
                                AuthBody(email, password, Absent,
                                         <<SignToken(Payload(u), "1h"),
                                           SignToken(Payload(u), "7d")>>), <<>>)

\* POST /auth/refresh: no gate; the token comes in the body. The new
\* payload is { id, email, name }.
Refresh(refreshToken) ==
    /\ UNCHANGED <<jobVars, appVars, reviewVars, build, restVars>>
    /\ IF ~refreshToken.present
       THEN RespondBody("refresh", NoUser, 0, 400,
                        [presented |-> refreshToken, tokens |-> <<>>], <<>>)
       ELSE LET v == jwtVerify(refreshToken) IN
            IF v.err # "none"
            THEN RespondBody("refresh", NoUser, 0, 403,
                             [presented |-> refreshToken, tokens |-> <<>>], <<>>)
            ELSE RespondBody("refresh", v.decoded.id, 0, 200,
                    [presented |-> refreshToken,
                     tokens |-> <<SignToken([id |-> refreshToken.id,
                                             email |-> refreshToken.email,
                                             name |-> refreshToken.name,
                                             role |-> "none"], "1h")>>], <<>>)

\* Connections: a request between two awaits occupies one.
MaxInFlight == 2
Slots == 1..MaxInFlight
Idle == [op |-> "idle"]

\* The password an answered request set: a register answered 201 for the
\* new user, a profile update answered 200 that supplied one for its caller.
ObservePasswords ==
    passwordSet' =
        [i \in Users |->
            IF last'.user # i THEN passwordSet[i]
            ELSE IF last'.op = "register" /\ last'.status = 201
            THEN last'.body.password
            ELSE IF /\ last'.op = "profile" /\ last'.status = 200
                    /\ last'.body.password # Absent
            THEN last'.body.password
            ELSE passwordSet[i]]

\* POST /auth/register before User.create: the input validation, the
\* required fields, the duplicate check. TRUE when it answers 400.
RegisterRejects(email, password, name) ==
    \/ ~InputOk(email, password)
    \/ name = Absent
    \/ UsersWithEmail(email) # {}

\* POST /auth/register from User.create on: email is unique, so the insert
\* of an email that is stored is rejected and the catch answers 500.
CreateUser(email, password, name) ==
    IF UsersWithEmail(email) # {}
    THEN /\ RespondBody("register", NoUser, 0, 500,
                        AuthBody(email, password, name, <<>>), <<>>)
         /\ UNCHANGED <<users, nextUserId>>
    ELSE /\ nextUserId <= MaxUsers
         /\ users' = users \cup
               {[id |-> nextUserId, email |-> email,
                 password |-> ToBase64(password), name |-> name,
                 role |-> "user"]}
         /\ nextUserId' = nextUserId + 1
         /\ RespondBody("register", nextUserId, 0, 201,
                        AuthBody(email, password, name, <<>>), <<>>)

\* POST /auth/register, served with no other request in flight.
Register(email, password, name) ==
    /\ UNCHANGED <<jobVars, appVars, reviewVars, build, interviewVars,
                   bookmarkVars, pending, serving, seeder>>
    /\ IF RegisterRejects(email, password, name)
       THEN /\ RespondBody("register", NoUser, 0, 400,
                           AuthBody(email, password, name, <<>>), <<>>)
            /\ UNCHANGED <<users, nextUserId>>
       ELSE CreateUser(email, password, name)
    /\ ObservePasswords

\* POST /auth/register up to its await of User.findOne; the request then
\* waits on a connection, and others are served.
RegisterBegin(slot, email, password, name) ==
    /\ pending[slot] = Idle
    /\ \A s \in Slots : s < slot => pending[s] # Idle
    /\ UNCHANGED <<jobVars, appVars, reviewVars, build, interviewVars,
                   bookmarkVars, serving, seeder, users, nextUserId>>
    /\ IF RegisterRejects(email, password, name)
       THEN /\ RespondBody("register", NoUser, 0, 400,
                           AuthBody(email, password, name, <<>>), <<>>)
            /\ UNCHANGED pending
       ELSE /\ nextUserId <= MaxUsers
            /\ pending' = [pending EXCEPT ![slot] =
                              [op |-> "register", email |-> email,
                               password |-> password, name |-> name]]
            /\ UNCHANGED last
    /\ UNCHANGED passwordSet

\* The rest of a waiting POST /auth/register.
RegisterFinish(slot) ==
    LET r == pending[slot] IN
    /\ r.op = "register"
    /\ UNCHANGED <<jobVars, appVars, reviewVars, build, interviewVars,
                   bookmarkVars, serving, seeder>>
    /\ pending' = [pending EXCEPT ![slot] = Idle]
    /\ CreateUser(r.email, r.password, r.name)
    /\ ObservePasswords

\* The handler of PUT /auth/profile: User.update of the fields supplied,
\* where id is the caller's. The model's isEmail and the unique email make
\* the update throw, and the catch answers 500.
ProfileHandler(user, email, name, password) ==
    IF email = Absent /\ name = Absent /\ password = Absent
    THEN /\ RespondBody("profile", user, 0, 400,
                        AuthBody(email, password, name, <<>>), <<>>)
         /\ UNCHANGED users
    ELSE IF email # Absent /\ email.k # "email"
    THEN /\ RespondBody("profile", user, 0, 500,
                        AuthBody(email, password, name, <<>>), <<>>)
         /\ UNCHANGED users
    ELSE IF ~\E u \in users : u.id = user
    THEN /\ RespondBody("profile", user, 0, 404,
                        AuthBody(email, password, name, <<>>), <<>>)
         /\ UNCHANGED users
    ELSE IF \E u \in UsersWithEmail(email) : u.id # user
    THEN /\ RespondBody("profile", user, 0, 500,
                        AuthBody(email, password, name, <<>>), <<>>)
         /\ UNCHANGED users
    ELSE /\ users' =
              {IF u.id # user THEN u
               ELSE [u EXCEPT
                       !.email = IF email = Absent THEN @ ELSE email,
                       !.name = IF name = Absent THEN @ ELSE name,
                       !.password = IF password = Absent THEN @
                                    ELSE ToBase64(password)] : u \in users}
         /\ RespondBody("profile", user, 0, 200,
                        AuthBody(email, password, name, <<>>), <<>>)

\* PUT /auth/profile: authenticateJWT, then the handler.
UpdateProfile(token, email, name, password) ==
    LET gate == authenticateJWT(token) IN
    /\ UNCHANGED <<jobVars, appVars, reviewVars, build, interviewVars,
                   bookmarkVars, pending, serving, seeder, nextUserId>>
    /\ IF gate.nexts = 0
       THEN /\ Respond("profile", NoUser, 0, gate.sent[1])
            /\ UNCHANGED users
       ELSE ProfileHandler(gate.user.id, email, name, password)
    /\ ObservePasswords

\* req.body of the auth routes: the fields the handlers read and a role,
\* "" when the body has none.
AuthBodies(emails, passwords, names, roles) ==
    [email : emails, password : passwords, name : names, role : roles]

\* POST /auth/register storing the role of the body when it has one.
RegisterBody_TakesRole(body) ==
    /\ UNCHANGED <<jobVars, appVars, reviewVars, build, interviewVars,
                   bookmarkVars, pending, serving, seeder>>
    /\ IF RegisterRejects(body.email, body.password, body.name)
       THEN /\ RespondBody("register", NoUser, 0, 400,
                  AuthBody(body.email, body.password, body.name, <<>>), <<>>)
            /\ UNCHANGED <<users, nextUserId>>
       ELSE /\ nextUserId <= MaxUsers
            /\ users' = users \cup
                  {[id |-> nextUserId, email |-> body.email,
                    password |-> ToBase64(body.password), name |-> body.name,
                    role |-> IF body.role = "" THEN "user" ELSE body.role]}
            /\ nextUserId' = nextUserId + 1
            /\ RespondBody("register", nextUserId, 0, 201,
                  AuthBody(body.email, body.password, body.name, <<>>), <<>>)
    /\ ObservePasswords

\* POST /auth/register of a body: const { email, password, name } = req.body.
RegisterBody(body) == Register(body.email, body.password, body.name)

\* PUT /auth/profile of a body: const { email, name, password } = req.body.
UpdateProfileBody(token, body) ==
    UpdateProfile(token, body.email, body.name, body.password)

\* User.destroy({ where: { id } }) with the foreign keys sync() declares:
\* applications.userId and bookmarks.userId come from belongsTo alone, are
\* nullable and are set to NULL (NoUser here); interviews.userId and
\* jobreviews.userId are declared onDelete: 'CASCADE'.
DestroyUser(user) ==
    /\ users' = {u \in users : u.id # user}
    /\ applications' =
          {IF a.userId = user THEN [a EXCEPT !.userId = NoUser] ELSE a :
              a \in applications}
    /\ bookmarks' =
          {IF b.userId = user THEN [b EXCEPT !.userId = NoUser] ELSE b :
              b \in bookmarks}
    /\ interviews' = {r \in interviews : r.userId # user}
    /\ reviews' = {r \in reviews : r.userId # user}

\* The handler of DELETE /auth/profile: no row destroyed is 404.
DeleteProfileHandler(user) ==
    IF ~\E u \in users : u.id = user
    THEN /\ Respond("unregister", user, 0, 404)
         /\ UNCHANGED <<users, applications, bookmarks, interviews, reviews>>
    ELSE /\ DestroyUser(user)
         /\ Respond("unregister", user, 0, 200)

\* DELETE /auth/profile: authenticateJWT, then the handler.
DeleteProfile(token) ==
    LET gate == authenticateJWT(token) IN
    /\ UNCHANGED <<jobVars, build, nextApplicationId, nextReviewId, nextUserId,
                   passwordSet, nextInterviewId, nextBookmarkId, toggles,
                   pending, serving, seeder>>
    /\ IF gate.nexts = 0
       THEN /\ Respond("unregister", NoUser, 0, gate.sent[1])
            /\ UNCHANGED <<users, applications, bookmarks, interviews, reviews>>
       ELSE DeleteProfileHandler(gate.user.id)

\* ------------------------------------------- routes/auth.js: interviews
MaxInterviews == 1

\* Interview.create with the model's default for interview_status in place
\* of the application's status.
InterviewCreate_DefaultStatus(application, userId, interview_date) ==
    IF interview_date # Date(1)
    THEN UNCHANGED interviewVars
    ELSE /\ nextInterviewId <= MaxInterviews
         /\ interviews' = interviews \cup
               {[id |-> nextInterviewId, applicationId |-> application.id,
                 userId |-> userId, interview_status |-> "scheduled",
                 feedback |-> Str(1)]}
         /\ nextInterviewId' = nextInterviewId + 1

\* Interview.create: interview_date is a DATE that may not be null; the
\* feedback is the request's, Str(1) for every create.
InterviewCreate(application, userId, interview_date) ==
    IF interview_date # Date(1)
    THEN UNCHANGED interviewVars
    ELSE /\ nextInterviewId <= MaxInterviews
         /\ interviews' = interviews \cup
               {[id |-> nextInterviewId, applicationId |-> application.id,
                 userId |-> userId, interview_status |-> application.status,
                 feedback |-> Str(1)]}
         /\ nextInterviewId' = nextInterviewId + 1

\* The handler looking the application up by its id alone.
InterviewHandler_AnyApplication(user, applicationId, interview_date) ==
    LET found == {a \in applications : Num(a.id) = applicationId}
        body == [applicationId |-> applicationId, interview_date |-> interview_date]
    IN IF applicationId = Absent
       THEN /\ RespondBody("interview", user, 0, 500, body, <<>>)
            /\ UNCHANGED interviewVars
       ELSE IF found = {}
       THEN /\ RespondBody("interview", user, applicationId.v, 403, body, <<>>)
            /\ UNCHANGED interviewVars
       ELSE \E a \in found :
               /\ InterviewCreate(a, user, interview_date)
               /\ RespondBody("interview", user, applicationId.v,
                              IF interview_date = Date(1) THEN 201 ELSE 500,
                              body, <<>>)

\* The handler of POST /interviews: Application.findOne({ where: { id:
\* applicationId, userId } }), which throws on an undefined id; none found
\* is 403; then Interview.create, whose failure the catch answers with 500.
InterviewHandler(user, applicationId, interview_date) ==
    LET found == {a \in applications :
                     Num(a.id) = applicationId /\ a.userId = user}
        body == [applicationId |-> applicationId, interview_date |-> interview_date]
    IN IF applicationId = Absent
       THEN /\ RespondBody("interview", user, 0, 500, body, <<>>)
            /\ UNCHANGED interviewVars
       ELSE IF found = {}
       THEN /\ RespondBody("interview", user, applicationId.v, 403, body, <<>>)
            /\ UNCHANGED interviewVars
       ELSE \E a \in found :
               /\ InterviewCreate(a, user, interview_date)
               /\ RespondBody("interview", user, applicationId.v,
                              IF interview_date = Date(1) THEN 201 ELSE 500,
                              body, <<>>)

\* POST /interviews: authenticateJWT, then the handler.
CreateInterview(token, applicationId, interview_date) ==
    LET gate == authenticateJWT(token) IN
    /\ UNCHANGED <<jobVars, appVars, reviewVars, build, userVars, bookmarkVars,
                   pending, serving, seeder>>
    /\ IF gate.nexts = 0
       THEN /\ Respond("interview", NoUser, 0, gate.sent[1])
            /\ UNCHANGED interviewVars
       ELSE InterviewHandler(gate.user.id, applicationId, interview_date)

\* Application.status as PUT /interviews/:applicationId wants it: '면접 완료'.
InterviewDone == "interviewed"

\* The interviews of the caller for an application, joined with the
\* application (required: true).
InterviewsOf(user, applicationId) ==
    {r \in interviews :
        /\ r.applicationId = applicationId /\ r.userId = user
        /\ \E a \in applications : a.id = applicationId}

\* The handler without the test of the application's status.
UpdateInterviewHandler_AnyStatus(user, applicationId, feedback) ==
    IF InterviewsOf(user, applicationId) = {}
    THEN /\ RespondBody("feedback", user, applicationId, 404,
                        [feedback |-> feedback], <<>>)
         /\ UNCHANGED interviewVars
    ELSE \E interview \in InterviewsOf(user, applicationId) :
            /\ interviews' = (interviews \ {interview}) \cup
                             {[interview EXCEPT !.feedback = feedback]}
            /\ UNCHANGED nextInterviewId
            /\ RespondBody("feedback", user, applicationId, 200,
                           [feedback |-> feedback], <<>>)

\* The handler of PUT /interviews/:applicationId: the caller's interview for
\* the application; none is 404; an application whose status is not
\* '면접 완료' is 403; otherwise the feedback is replaced, 200.
UpdateInterviewHandler(user, applicationId, feedback) ==
    IF InterviewsOf(user, applicationId) = {}
    THEN /\ RespondBody("feedback", user, applicationId, 404,
                        [feedback |-> feedback], <<>>)
         /\ UNCHANGED interviewVars
    ELSE \E interview \in InterviewsOf(user, applicationId) :
            IF \E a \in applications :
                  a.id = applicationId /\ a.status # InterviewDone
            THEN /\ RespondBody("feedback", user, applicationId, 403,
                                [feedback |-> feedback], <<>>)
                 /\ UNCHANGED interviewVars
            ELSE /\ interviews' = (interviews \ {interview}) \cup
                                  {[interview EXCEPT !.feedback = feedback]}
                 /\ UNCHANGED nextInterviewId
                 /\ RespondBody("feedback", user, applicationId, 200,
                                [feedback |-> feedback], <<>>)

\* PUT /interviews/:applicationId: authenticateJWT, then the handler.
UpdateInterview(token, applicationId, feedback) ==
    LET gate == authenticateJWT(token) IN
    /\ UNCHANGED <<jobVars, appVars, reviewVars, build, userVars, bookmarkVars,
                   pending, serving, seeder>>
    /\ IF gate.nexts = 0
       THEN /\ Respond("feedback", NoUser, applicationId, gate.sent[1])
            /\ UNCHANGED interviewVars
       ELSE UpdateInterviewHandler(gate.user.id, applicationId, feedback)

\* The handler of DELETE /interviews/:id: the caller's interview with that
\* id is destroyed, 200; none is 404.
DeleteInterviewHandler(user, id) ==
    LET found == {r \in interviews : r.id = id /\ r.userId = user} IN
    IF found = {}
    THEN /\ Respond("uninterview", user, id, 404)
         /\ UNCHANGED interviewVars
    ELSE /\ interviews' = interviews \ found
         /\ UNCHANGED nextInterviewId
         /\ Respond("uninterview", user, id, 200)

\* DELETE /interviews/:id: authenticateJWT, then the handler.
DeleteInterview(token, id) ==
    LET gate == authenticateJWT(token) IN
    /\ UNCHANGED <<jobVars, appVars, reviewVars, build, userVars, bookmarkVars,
                   pending, serving, seeder>>
    /\ IF gate.nexts = 0
       THEN /\ Respond("uninterview", NoUser, id, gate.sent[1])
            /\ UNCHANGED interviewVars
       ELSE DeleteInterviewHandler(gate.user.id, id)

\* ----------------------------------------------- routes: bookmarks
MaxToggles == 4

RECURSIVE SumOver(_, _)
SumOver(f, dom) ==
    IF dom = {} THEN 0
    ELSE LET x == CHOOSE y \in dom : TRUE IN f[x] + SumOver(f, dom \ {x})

\* The toggles answered so far, over all users and jobs.
TotalToggles ==
    SumOver([u \in Users |-> SumOver(toggles[u], JobIdSpace)], Users)

\* The handler that adds a bookmark whether or not one is stored.
BookmarkHandler_AlwaysAdds(user, jobId) ==
    IF jobId = NoJobId
    THEN /\ Respond("bookmark", user, jobId, 400)
         /\ UNCHANGED bookmarkVars
    ELSE IF ~JobExists(jobId)
    THEN /\ Respond("bookmark", user, jobId, 500)
         /\ UNCHANGED bookmarkVars
    ELSE /\ TotalToggles < MaxToggles
         /\ bookmarks' = bookmarks \cup
               {[id |-> nextBookmarkId, userId |-> user, jobId |-> jobId]}
         /\ nextBookmarkId' = nextBookmarkId + 1
         /\ toggles' = [toggles EXCEPT ![user][jobId] = @ + 1]
         /\ Respond("bookmark", user, jobId, 201)

\* The handler of POST /bookmarks: a missing jobId is 400; the caller's
\* bookmark of the job is looked up; one found is destroyed, 200; none found
\* is created, 201. The rows reference users and jobs: creating one for a
\* job that does not exist fails, and the catch answers 500.
BookmarkHandler(user, jobId) ==
    LET existing == {b \in bookmarks : b.userId = user /\ b.jobId = jobId} IN
    IF jobId = NoJobId
    THEN /\ Respond("bookmark", user, jobId, 400)
         /\ UNCHANGED bookmarkVars
    ELSE IF existing # {}
    THEN /\ TotalToggles < MaxToggles
         /\ \E b \in existing : bookmarks' = bookmarks \ {b}
         /\ toggles' = [toggles EXCEPT ![user][jobId] = @ + 1]
         /\ UNCHANGED nextBookmarkId
         /\ Respond("bookmark", user, jobId, 200)
    ELSE IF ~JobExists(jobId)
    THEN /\ Respond("bookmark", user, jobId, 500)
         /\ UNCHANGED bookmarkVars
    ELSE /\ TotalToggles < MaxToggles
         /\ bookmarks' = bookmarks \cup
               {[id |-> nextBookmarkId, userId |-> user, jobId |-> jobId]}
         /\ nextBookmarkId' = nextBookmarkId + 1
         /\ toggles' = [toggles EXCEPT ![user][jobId] = @ + 1]
         /\ Respond("bookmark", user, jobId, 201)

\* POST /bookmarks: authenticateJWT, then the handler.
ToggleBookmark(token, jobId) ==
    LET gate == authenticateJWT(token) IN
    /\ UNCHANGED <<jobVars, appVars, reviewVars, build, userVars, interviewVars,
                   pending, serving, seeder>>
    /\ IF gate.nexts = 0
       THEN /\ Respond("bookmark", NoUser, jobId, gate.sent[1])
            /\ UNCHANGED bookmarkVars
       ELSE BookmarkHandler(gate.user.id, jobId)

\* ------------------------------------------------ the crawler, server.js
Pages == 3

\* What a page request can give: an error, or the listing items of the
\* page, each with the link it carries.
FetchFailed == [ok |-> FALSE, links |-> {}]
PageResults == {FetchFailed} \cup {[ok |-> TRUE, links |-> ls] : ls \in SUBSET Links}
LinksOf(results, pages) ==
    UNION {results[pg].links : pg \in {x \in 1..pages : results[x].ok}}

\* The rows the crawl leaves for a set of links: link is unique, so one per
\* link, with the ids of a table just created.
RECURSIVE CrawledRows(_, _)
CrawledRows(links, id) ==
    IF links = {} THEN {}
    ELSE LET l == CHOOSE x \in links : \A y \in links : x <= y
         IN {[id |-> id, views |-> 0, body |-> SeedBody(l)]}
            \cup CrawledRows(links \ {l}, id + 1)

CrawlReport(dropped, fetched, inserted) ==
    RespondBody("crawl", NoUser, 0, 0,
                [dropped |-> dropped, fetched |-> fetched, inserted |-> inserted],
                <<>>)

\* The table is dropped and created again, and the pages are requested. The
\* items' inserts are started without being awaited; this is the start in
\* which all of them are done before the server listens. CrawlCount to
\* Listen below take the crawl one await at a time.
Recrawl(pages) ==
    \/ \E dropped \in BOOLEAN :
          /\ CrawlReport(dropped, 0, 0)
          /\ UNCHANGED <<jobs, nextJobId, viewed>>
    \/ \E results \in [1..pages -> PageResults] :
          LET rows == CrawledRows(LinksOf(results, pages), 1) IN
          /\ jobs' = rows
          /\ nextJobId' = Cardinality(rows) + 1
          /\ viewed' = [i \in JobIdSpace |-> 0]
          /\ CrawlReport(TRUE, pages, Cardinality(rows))

\* crawl_saramin without the count in front of it.
crawl_saramin_NoCount(pages) == Recrawl(pages)

\* crawl_saramin(pages): with a row in jobs it returns at once. Otherwise it
\* drops the table and creates it again (an error there ends the crawl, with
\* the table dropped or not), then requests each page and stores the
\* items of those that answer.
crawl_saramin(pages) ==
    IF jobs # {}
    THEN /\ CrawlReport(FALSE, 0, 0)
         /\ UNCHANGED <<jobs, nextJobId, viewed>>
    ELSE Recrawl(pages)

\* startServer: the crawl, then app.listen.
startServer ==
    /\ ~serving
    /\ crawl_saramin(Pages)
    /\ serving' = TRUE
    /\ UNCHANGED <<appVars, reviewVars, build, userVars, interviewVars,
                   bookmarkVars, pending, seeder>>

\* The process ends.
StopServer ==
    /\ serving
    /\ serving' = FALSE
    /\ Respond("stop", NoUser, 0, 0)
    /\ UNCHANGED <<jobVars, appVars, reviewVars, build, userVars, interviewVars,
                   bookmarkVars, pending, seeder>>

\* ----------------------------------------- the crawler, one await at a time
MaxItems == 2

\* A .box_item of a listing page: whether .job_tit a and .company_nm a have
\* text, and the href of .job_tit a, NoHref when it has none.
NoHref == 0
ItemLinks == {1, NoHref}
Item(title, company, href) == [title |-> title, company |-> company, href |-> href]
ItemKinds ==
    {Item(TRUE, TRUE, l) : l \in ItemLinks}
    \cup {Item(FALSE, TRUE, 1), Item(TRUE, FALSE, 1)}
Listings == UNION {[1..n -> ItemKinds] : n \in 0..MaxItems}

\* rawJobData: link is the site's prefix followed by the href, by
\* 'undefined' when there is none (Uri(NoHref)); never the empty string.
rawJobData(job) ==
    [title |-> job.title, company |-> job.company, link |-> Uri(job.href)]

\* validateAndNormalizeJobData: null when title, company or link is empty.
validateAndNormalizeJobData(rawData) ==
    IF ~rawData.title \/ ~rawData.company \/ rawData.link.k # "uri"
    THEN Null
    ELSE SeedBody(rawData.link.v)

\* The items whose callback waits on the database, counted per link and
\* stage: "lookup" for Job.findOne, "insert" for Job.create.
Stages == {"lookup", "insert"}
Cells == ItemLinks \X Stages
NoneInFlight == [c \in Cells |-> 0]
SeederOff ==
    [pc |-> "off", jobCount |-> 0, recreated |-> FALSE, page |-> 0,
     attempted |-> <<>>, fkChecks |-> TRUE, inflight |-> NoneInFlight]
InFlight == {c \in Cells : seeder.inflight[c] > 0}

\* crawl_saramin to its first await: Job.count. A count that throws ends
\* startServer in its catch; a row ends the crawl at once.
CrawlCount ==
    /\ seeder.pc = "count"
    /\ UNCHANGED <<jobVars, appVars, reviewVars, build, userVars, interviewVars,
                   bookmarkVars, pending, serving>>
    /\ \/ /\ seeder' = [seeder EXCEPT !.pc = "failed"]
          /\ Respond("count", NoUser, 0, 500)
       \/ /\ seeder' = [seeder EXCEPT
                !.pc = IF jobs # {} THEN "returned" ELSE "recreate",
                !.jobCount = Cardinality(jobs)]
          /\ Respond("count", NoUser, Cardinality(jobs), 0)

\* The try block: SET FOREIGN_KEY_CHECKS = 0, dropTable, Job.sync, SET
\* FOREIGN_KEY_CHECKS = 1. The first of them to throw, if any, goes to the
\* catch, which returns.
RecreateSteps == <<"disable", "drop", "sync", "enable">>
CrawlRecreate ==
    /\ seeder.pc = "recreate"
    /\ UNCHANGED <<appVars, reviewVars, build, userVars, interviewVars,
                   bookmarkVars, pending, serving>>
    /\ \E done \in 0..Len(RecreateSteps) :
          /\ seeder' = [seeder EXCEPT
                !.pc = IF done = Len(RecreateSteps) THEN "pages" ELSE "returned",
                !.recreated = (done = Len(RecreateSteps)),
                !.page = 1,
                !.fkChecks = done \in {0, Len(RecreateSteps)}]
          /\ jobs' = IF done >= 2 THEN {} ELSE jobs
          /\ nextJobId' = IF done >= 2 THEN 1 ELSE nextJobId
          /\ viewed' = IF done >= 2 THEN [i \in JobIdSpace |-> 0] ELSE viewed
          /\ RespondBody("recreate", NoUser, done, 0, EmptyBody, <<>>)

\* The items of a page that get as far as Job.findOne, per link.
Started(items, link) ==
    Cardinality({i \in DOMAIN items :
        LET data == validateAndNormalizeJobData(rawJobData(items[i])) IN
        data # Null /\ data.link = Uri(link)})

\* The page loop with a request that throws ending the crawl.
FetchPage_AbortsOnError(pages) ==
    /\ seeder.pc = "pages"
    /\ seeder.page <= pages
    /\ UNCHANGED <<jobVars, appVars, reviewVars, build, userVars, interviewVars,
                   bookmarkVars, pending, serving>>
    /\ \/ /\ seeder' = [seeder EXCEPT !.pc = "returned",
                                      !.attempted = Append(@, seeder.page)]
          /\ Respond("page", NoUser, seeder.page, 500)
       \/ \E items \in Listings :
             /\ seeder' = [seeder EXCEPT
                   !.page = @ + 1,
                   !.attempted = Append(@, seeder.page),
                   !.inflight = [c \in Cells |->
                       IF c[2] = "lookup" THEN @[c] + Started(items, c[1])
                       ELSE @[c]]]
             /\ Respond("page", NoUser, seeder.page, 200)

\* One turn of the page loop: axios.get, then each item's callback up to its
\* first await. A request that throws goes to the page's catch.
FetchPage(pages) ==
    /\ seeder.pc = "pages"
    /\ seeder.page <= pages
    /\ UNCHANGED <<jobVars, appVars, reviewVars, build, userVars, interviewVars,
                   bookmarkVars, pending, serving>>
    /\ \/ /\ seeder' = [seeder EXCEPT !.page = @ + 1,
                                      !.attempted = Append(@, seeder.page)]
          /\ Respond("page", NoUser, seeder.page, 500)
       \/ \E items \in Listings :
             /\ seeder' = [seeder EXCEPT
                   !.page = @ + 1,
                   !.attempted = Append(@, seeder.page),
                   !.inflight = [c \in Cells |->
                       IF c[2] = "lookup" THEN @[c] + Started(items, c[1])
                       ELSE @[c]]]
             /\ Respond("page", NoUser, seeder.page, 200)

\* The page loop ends and crawl_saramin's promise resolves.
CrawlReturn(pages) ==
    /\ seeder.pc = "pages"
    /\ seeder.page > pages
    /\ seeder' = [seeder EXCEPT !.pc = "returned"]
    /\ Respond("return", NoUser, 0, 0)
    /\ UNCHANGED <<jobVars, appVars, reviewVars, build, userVars, interviewVars,
                   bookmarkVars, pending, serving>>

\* startServer after await crawl_saramin(3): app.listen.
Listen ==
    /\ seeder.pc = "returned"
    /\ ~serving
    /\ serving' = TRUE
    /\ Respond("listen", NoUser, 0, 0)
    /\ UNCHANGED <<jobVars, appVars, reviewVars, build, userVars, interviewVars,
                   bookmarkVars, pending, seeder>>

Move(inflight, from, to) ==
    [c \in Cells |->
        IF c = from THEN inflight[c] - 1
        ELSE IF c = to THEN inflight[c] + 1
        ELSE inflight[c]]

\* An item's callback after Job.findOne: a row with the link, or a lookup
\* that throws, ends it; otherwise it goes on to Job.create.
ItemLookup(link) ==
    /\ seeder.inflight[<<link, "lookup">>] > 0
    /\ UNCHANGED <<jobVars, appVars, reviewVars, build, userVars, interviewVars,
                   bookmarkVars, pending, serving>>
    /\ \/ /\ seeder' = [seeder EXCEPT
                !.inflight = Move(@, <<link, "lookup">>, <<NoHref, "none">>)]
          /\ Respond("lookup", NoUser, link, 500)
       \/ IF \E j \in jobs : j.body.link = Uri(link)
          THEN /\ seeder' = [seeder EXCEPT
                     !.inflight = Move(@, <<link, "lookup">>, <<NoHref, "none">>)]
               /\ Respond("lookup", NoUser, link, 200)
          ELSE /\ seeder' = [seeder EXCEPT
                     !.inflight = Move(@, <<link, "lookup">>, <<link, "insert">>)]
               /\ Respond("lookup", NoUser, link, 404)

\* Job.create without the unique key on link.
ItemInsert_NoUniqueKey(link) ==
    /\ seeder.inflight[<<link, "insert">>] > 0
    /\ UNCHANGED <<viewed, appVars, reviewVars, build, userVars, interviewVars,
                   bookmarkVars, pending, serving>>
    /\ seeder' = [seeder EXCEPT
          !.inflight = Move(@, <<link, "insert">>, <<NoHref, "none">>)]
    /\ nextJobId <= Cardinality(JobIdSpace)
    /\ jobs' = jobs \cup
          {[id |-> nextJobId, views |-> 0, body |-> SeedBody(link)]}
    /\ nextJobId' = nextJobId + 1
    /\ Respond("insert", NoUser, link, 201)

\* An item's callback after Job.create: link is unique, so an insert of a
\* link that is stored throws, as any insert may; the item's catch logs it.
ItemInsert(link) ==
    /\ seeder.inflight[<<link, "insert">>] > 0
    /\ UNCHANGED <<viewed, appVars, reviewVars, build, userVars, interviewVars,
                   bookmarkVars, pending, serving>>
    /\ seeder' = [seeder EXCEPT
          !.inflight = Move(@, <<link, "insert">>, <<NoHref, "none">>)]
    /\ \/ /\ UNCHANGED <<jobs, nextJobId>>
          /\ Respond("insert", NoUser, link, 500)
       \/ IF \E j \in jobs : j.body.link = Uri(link)
          THEN /\ UNCHANGED <<jobs, nextJobId>>
               /\ Respond("insert", NoUser, link, 409)
          ELSE /\ jobs' = jobs \cup
                     {[id |-> nextJobId, views |-> 0, body |-> SeedBody(link)]}
               /\ nextJobId' = nextJobId + 1
               /\ Respond("insert", NoUser, link, 201)


\* ------------------------------------- POST /applications under load
\* POST /applications up to its await of Application.findOne, when that
\* finds no application of the caller for the job: the request then waits
\* on a connection, and others are served. Every other outcome is the
\* handler's, unchanged.
ApplyBegin(slot, token, jobId) ==
    LET gate == authenticateJWT(token) IN
    /\ pending[slot] = Idle
    /\ \A s \in Slots : s < slot => pending[s] # Idle
    /\ UNCHANGED <<jobVars, reviewVars, build, userVars, interviewVars,
                   bookmarkVars, serving, seeder>>
    /\ IF gate.nexts = 0
       THEN /\ Respond("apply", NoUser, jobId, gate.sent[1])
            /\ UNCHANGED <<applications, nextApplicationId, pending>>
       ELSE IF /\ jobId # NoJobId
               /\ JobExists(jobId)
               /\ ApplicationsOf(gate.user.id, jobId) = {}
       THEN /\ pending' = [pending EXCEPT ![slot] =
                              [op |-> "apply", user |-> gate.user.id,
                               jobId |-> jobId]]
            /\ UNCHANGED <<applications, nextApplicationId, last>>
       ELSE /\ ApplyHandler(gate.user.id, jobId)
            /\ UNCHANGED pending

\* The rest of a waiting POST /applications: Application.create, on a table
\* without a unique key over (userId, jobId), and the 201.
ApplyFinish(slot) ==
    LET r == pending[slot] IN
    /\ r.op = "apply"
    /\ Cardinality(applications) < MaxApplications
    /\ UNCHANGED <<jobVars, reviewVars, build, userVars, interviewVars,
                   bookmarkVars, serving, seeder>>
    /\ pending' = [pending EXCEPT ![slot] = Idle]
    /\ applications' = applications \cup
           {[id |-> nextApplicationId, userId |-> r.user, jobId |-> r.jobId,
             status |-> Submitted]}
    /\ nextApplicationId' = nextApplicationId + 1
    /\ Respond("apply", r.user, r.jobId, 201)

\* ------------------------------------------------------------ behaviour
\* The store after startup: the catalog is seeded, nobody has applied yet.
NoRequest ==
    [op |-> "none", user |-> NoUser, arg |-> 0, status |-> 0,
     body |-> EmptyBody, msgs |-> <<>>]

\* The accounts of users 1..MaxUsers, as register stores them.
RegisteredUsers ==
    {[id |-> i, email |-> Email(i), password |-> ToBase64(Password(2, PasswordMin)),
      name |-> Str(4), role |-> "user"] : i \in Users}

\* The tables the routes of a specification do not touch.
InitRest ==
    /\ users = RegisteredUsers
    /\ nextUserId = MaxUsers + 1
    /\ passwordSet = [i \in Users |-> Password(2, PasswordMin)]
    /\ interviews = {}
    /\ nextInterviewId = 1
    /\ bookmarks = {}
    /\ nextBookmarkId = 1
    /\ toggles = [u \in Users |-> [j \in JobIdSpace |-> 0]]
    /\ pending = [s \in Slots |-> Idle]
    /\ serving = TRUE
    /\ seeder = SeederOff

Init ==
    /\ jobs = {[id |-> i, views |-> 0, body |-> SeedBody(i)] : i \in 1..SeedJobs}
    /\ nextJobId = SeedJobs + 1
    /\ build = [ormAcceptsArrays |-> FALSE, sqlStrict |-> TRUE]
    /\ reviews = {}
    /\ nextReviewId = 1
    /\ viewed = [i \in JobIdSpace |-> 0]
    /\ applications = {}
    /\ nextApplicationId = 1
    /\ InitRest
    /\ last = NoRequest

\* The gate answers before the path and the body are looked at: of the
\* requests it turns away one per route stands for all.
ArgsFor(token, args) ==
    IF authenticateJWT(token).nexts > 0 THEN args ELSE {CHOOSE a \in args : TRUE}

Next ==
    \/ \E t \in UserTokens \cup {NoToken} : \E j \in ArgsFor(t, ApplyArgs) :
          Apply(t, j)
    \/ \E t \in UserTokens \cup {NoToken} : \E i \in ArgsFor(t, WithdrawArgs) :
          Withdraw(t, i)

Spec == Init /\ [][Next]_vars

\* The job catalog: one seeded job, caller 1 with each kind of credential.
CallerTokens == {NoToken, MakeToken(TRUE, FALSE, 1, "user")}
JobArgs == 1..(MaxJobs + 1)

InitJobs ==
    /\ jobs = {[id |-> 1, views |-> 0, body |-> SeedBody(1)]}
    /\ nextJobId = 2
    /\ build \in [ormAcceptsArrays : BOOLEAN, sqlStrict : {TRUE}]
    /\ reviews = {}
    /\ nextReviewId = 1
    /\ viewed = [i \in JobIdSpace |-> 0]
    /\ applications = {}
    /\ nextApplicationId = 1
    /\ InitRest
    /\ last = NoRequest

NextJobs ==
    \/ \E t \in CallerTokens : \E i \in ArgsFor(t, JobArgs) : ViewJob(t, i)
    \/ \E t \in CallerTokens : \E i \in ArgsFor(t, JobArgs), b \in ArgsFor(t, Bodies) :
          EditJob(t, i, b)
    \/ \E t \in CallerTokens : \E b \in ArgsFor(t, Bodies) : CreateJob(t, b)
    \/ \E t \in CallerTokens : \E i \in ArgsFor(t, JobArgs) : DeleteJob(t, i)

SpecJobs == InitJobs /\ [][NextJobs]_vars

\* Reviews: the seeded catalog, on a database in either SQL mode.
InitReviews ==
    /\ jobs = {[id |-> i, views |-> 0, body |-> SeedBody(i)] : i \in 1..SeedJobs}
    /\ nextJobId = SeedJobs + 1
    /\ build \in [ormAcceptsArrays : {FALSE}, sqlStrict : BOOLEAN]
    /\ viewed = [i \in JobIdSpace |-> 0]
    /\ reviews = {}
    /\ nextReviewId = 1
    /\ applications = {}
    /\ nextApplicationId = 1
    /\ InitRest
    /\ last = NoRequest

NextReviews ==
    \E t \in CallerTokens :
        \E j \in ArgsFor(t, ApplyArgs), r \in ArgsFor(t, Ratings) :
            PostReview(t, j, r)

SpecReviews == InitReviews /\ [][NextReviews]_vars

\* Routing: every route, with every kind of authorization header.
GateTokens ==
    {NoToken, BearerHeader(MakeToken(TRUE, FALSE, 1, "user"))}
    \cup {MakeToken(TRUE, FALSE, u, r) : u \in Users, r \in Roles}
    \cup {MakeToken(TRUE, TRUE, 1, "user"), MakeToken(FALSE, FALSE, 1, "user"),
          MakeToken(FALSE, TRUE, 1, "user")}

NextGate ==
    \E r \in Routes, t \in GateTokens, ok \in BOOLEAN : Dispatch(r, t, ok)

SpecGate == Init /\ [][NextGate]_vars

\* Tokens: the accounts exist, each with a role the database gives it (the
\* API stores 'user'; another role is set in the table directly). Clients
\* log in, refresh with any token they hold, and call the summary.
ProvisionedUsers(roleOf) ==
    {[id |-> i, email |-> Email(i), password |-> ToBase64(Password(2, PasswordMin)),
      name |-> Str(4), role |-> roleOf[i]] : i \in Users}

\* The tokens a client can hold: those login signs for an account, what
\* refresh signs from them, and the unusable ones.
LoginTokens == {SignToken(Payload(u), ttl) : u \in users, ttl \in {"1h", "7d"}}
RefreshedTokens ==
    {SignToken([Payload(u) EXCEPT !.role = "none"], "1h") : u \in users}
HeldTokens ==
    LoginTokens \cup RefreshedTokens
    \cup {NoToken, MakeToken(TRUE, TRUE, 1, "user"), MakeToken(FALSE, FALSE, 1, "user")}

InitTokens ==
    /\ jobs = {[id |-> i, views |-> 0, body |-> SeedBody(i)] : i \in 1..SeedJobs}
    /\ nextJobId = SeedJobs + 1
    /\ build = [ormAcceptsArrays |-> FALSE, sqlStrict |-> TRUE]
    /\ reviews = {}
    /\ nextReviewId = 1
    /\ viewed = [i \in JobIdSpace |-> 0]
    /\ applications = {}
    /\ nextApplicationId = 1
    /\ \E roleOf \in [Users -> Roles] : users = ProvisionedUsers(roleOf)
    /\ nextUserId = MaxUsers + 1
    /\ passwordSet = [i \in Users |-> Password(2, PasswordMin)]
    /\ interviews = {}
    /\ nextInterviewId = 1
    /\ bookmarks = {}
    /\ nextBookmarkId = 1
    /\ toggles = [u \in Users |-> [j \in JobIdSpace |-> 0]]
    /\ pending = [s \in Slots |-> Idle]
    /\ serving = TRUE
    /\ seeder = SeederOff
    /\ last = NoRequest

NextTokens ==
    \/ \E e \in Emails, p \in Passwords : Login(e, p)
    \/ \E t \in HeldTokens : Refresh(t)
    \/ \E t \in HeldTokens : \E j \in ArgsFor(t, ApplyArgs) : Summarize(t, j)

SpecTokens == InitTokens /\ [][NextTokens]_vars

\* Accounts: nobody is registered yet; clients register, log in and update
\* their profile, one request at a time.
AccessTokens == {SignToken(Payload(u), "1h") : u \in users} \cup {NoToken}
EmailInputs == Emails \cup {NotEmail}
PasswordInputs == Passwords \cup {Absent}

InitAuth ==
    /\ jobs = {[id |-> i, views |-> 0, body |-> SeedBody(i)] : i \in 1..SeedJobs}
    /\ nextJobId = SeedJobs + 1
    /\ build = [ormAcceptsArrays |-> FALSE, sqlStrict |-> TRUE]
    /\ reviews = {}
    /\ nextReviewId = 1
    /\ viewed = [i \in JobIdSpace |-> 0]
    /\ applications = {}
    /\ nextApplicationId = 1
    /\ users = {}
    /\ nextUserId = 1
    /\ passwordSet = [i \in Users |-> Absent]
    /\ interviews = {}
    /\ nextInterviewId = 1
    /\ bookmarks = {}
    /\ nextBookmarkId = 1
    /\ toggles = [u \in Users |-> [j \in JobIdSpace |-> 0]]
    /\ pending = [s \in Slots |-> Idle]
    /\ serving = TRUE
    /\ seeder = SeederOff
    /\ last = NoRequest

NextAuth ==
    \/ \E e \in EmailInputs, p \in Passwords, n \in Names \cup {Absent} :
          Register(e, p, n)
    \/ \E e \in EmailInputs, p \in Passwords : Login(e, p)
    \/ \E t \in AccessTokens :
          \E e \in ArgsFor(t, {Absent}), n \in ArgsFor(t, Names \cup {Absent}),
             p \in ArgsFor(t, PasswordInputs) :
             UpdateProfile(t, e, n, p)

SpecAuth == InitAuth /\ [][NextAuth]_vars

\* Registration under load: a register waits at its awaits while other
\* requests are served; accounts change their email.
NextRegister ==
    \/ \E s \in Slots, e \in EmailInputs, n \in Names :
          RegisterBegin(s, e, Password(2, PasswordMin), n)
    \/ \E s \in Slots : RegisterFinish(s)
    \/ \E t \in AccessTokens : \E e \in ArgsFor(t, EmailInputs) :
          UpdateProfile(t, e, Absent, Absent)

SpecRegister == InitAuth /\ [][NextRegister]_vars

\* Listings: users apply to job 1 and withdraw; account 1, whose role is whatever
\* the users table says (the column is a free string, default 'user'),
\* lists applications and asks for summaries.
ListRoles == Roles \cup {"company"}
Queries ==
    [status : {Absent, StatusParam(Withdrawn)},
     jobId : {Absent, Num(1), Num(SeedJobs + 1)},
     userId : {Absent} \cup {Num(u) : u \in Users}]
ListerTokens ==
    {SignToken(Payload(u), "1h") : u \in {x \in users : x.id = 1}} \cup {NoToken}

InitListing ==
    /\ jobs = {[id |-> i, views |-> 0, body |-> SeedBody(i)] : i \in 1..SeedJobs}
    /\ nextJobId = SeedJobs + 1
    /\ build = [ormAcceptsArrays |-> FALSE, sqlStrict |-> TRUE]
    /\ reviews = {}
    /\ nextReviewId = 1
    /\ viewed = [i \in JobIdSpace |-> 0]
    /\ applications = {}
    /\ nextApplicationId = 1
    /\ \E r \in ListRoles :
          users = ProvisionedUsers([i \in Users |-> IF i = 1 THEN r ELSE "user"])
    /\ nextUserId = MaxUsers + 1
    /\ passwordSet = [i \in Users |-> Password(2, PasswordMin)]
    /\ interviews = {}
    /\ nextInterviewId = 1
    /\ bookmarks = {}
    /\ nextBookmarkId = 1
    /\ toggles = [u \in Users |-> [j \in JobIdSpace |-> 0]]
    /\ pending = [s \in Slots |-> Idle]
    /\ serving = TRUE
    /\ seeder = SeederOff
    /\ last = NoRequest

NextListing ==
    \/ \E t \in AccessTokens : Apply(t, 1)
    \/ \E t \in AccessTokens : Withdraw(t, 1)
    \/ \E t \in ListerTokens : \E q \in ArgsFor(t, Queries) : ListApplications(t, q)
    \/ \E t \in ListerTokens : \E j \in ArgsFor(t, ApplyArgs) : Summarize(t, j)

SpecListing == InitListing /\ [][NextListing]_vars

\* Interviews: users apply and record interviews.
ApplicationIds == {Absent} \cup {Num(i) : i \in 1..(MaxApplications + 1)}
InterviewDates == {Date(1), Absent}

NextInterviews ==
    \/ \E t \in UserTokens \cup {NoToken} : \E j \in ArgsFor(t, 1..SeedJobs) :
          Apply(t, j)
    \/ \E t \in UserTokens \cup {NoToken} :
          \E i \in ArgsFor(t, ApplicationIds), d \in ArgsFor(t, InterviewDates) :
             CreateInterview(t, i, d)

SpecInterviews == Init /\ [][NextInterviews]_vars

\* Bookmarks: users toggle bookmarks of the seeded jobs, and of none.
NextBookmarks ==
    \E t \in UserTokens \cup {NoToken} : \E j \in ArgsFor(t, ApplyArgs) :
        ToggleBookmark(t, j)

SpecBookmarks == Init /\ [][NextBookmarks]_vars

\* Startup: the process starts on an empty database, is stopped and
\* started again; while it is up, jobs are viewed and deleted.
InitSeed ==
    /\ jobs = {}
    /\ nextJobId = 1
    /\ build = [ormAcceptsArrays |-> FALSE, sqlStrict |-> TRUE]
    /\ reviews = {}
    /\ nextReviewId = 1
    /\ viewed = [i \in JobIdSpace |-> 0]
    /\ applications = {}
    /\ nextApplicationId = 1
    /\ users = RegisteredUsers
    /\ nextUserId = MaxUsers + 1
    /\ passwordSet = [i \in Users |-> Password(2, PasswordMin)]
    /\ interviews = {}
    /\ nextInterviewId = 1
    /\ bookmarks = {}
    /\ nextBookmarkId = 1
    /\ toggles = [u \in Users |-> [j \in JobIdSpace |-> 0]]
    /\ pending = [s \in Slots |-> Idle]
    /\ serving = FALSE
    /\ seeder = SeederOff
    /\ last = NoRequest

NextSeed ==
    \/ startServer
    \/ StopServer
    \/ serving /\ \E t \in CallerTokens : \E i \in ArgsFor(t, Links) : ViewJob(t, i)
    \/ serving /\ \E t \in CallerTokens : \E i \in ArgsFor(t, Links) : DeleteJob(t, i)

SpecSeed == InitSeed /\ [][NextSeed]_vars

\* Applications under load: caller 1's applies wait at their awaits while
\* other requests of the caller are served.
NextRace ==
    \/ \E s \in Slots, t \in CallerTokens :
          \E j \in ArgsFor(t, ApplyArgs) : ApplyBegin(s, t, j)
    \/ \E s \in Slots : ApplyFinish(s)
    \/ \E t \in CallerTokens : \E j \in ArgsFor(t, ApplyArgs) : Withdraw(t, j)

SpecRace == Init /\ [][NextRace]_vars

\* Interviews over time: caller 1 applies, withdraws and applies again,
\* records interviews, edits their feedback and deletes them.
NextFeedback ==
    \/ \E t \in CallerTokens : \E j \in ArgsFor(t, 1..SeedJobs) : Apply(t, j)
    \/ \E t \in CallerTokens : \E j \in ArgsFor(t, 1..SeedJobs) : Withdraw(t, j)
    \/ \E t \in CallerTokens :
          \E i \in ArgsFor(t, {Num(a) : a \in 1..MaxApplications}) :
             CreateInterview(t, i, Date(1))
    \/ \E t \in CallerTokens : \E i \in ArgsFor(t, 1..MaxApplications) :
          UpdateInterview(t, i, Str(2))
    \/ \E t \in CallerTokens : \E i \in ArgsFor(t, 1..(MaxInterviews + 1)) :
          DeleteInterview(t, i)

SpecFeedback == Init /\ [][NextFeedback]_vars

\* Roles: account 1 is stored with a role given to it in the database;
\* clients register and update profiles with bodies that name a role.
RoleInputs == {"", "admin", "company"}

InitRoles ==
    /\ jobs = {[id |-> i, views |-> 0, body |-> SeedBody(i)] : i \in 1..SeedJobs}
    /\ nextJobId = SeedJobs + 1
    /\ build = [ormAcceptsArrays |-> FALSE, sqlStrict |-> TRUE]
    /\ reviews = {}
    /\ nextReviewId = 1
    /\ viewed = [i \in JobIdSpace |-> 0]
    /\ applications = {}
    /\ nextApplicationId = 1
    /\ \E r \in ListRoles :
          users = {[id |-> 1, email |-> Email(1),
                    password |-> ToBase64(Password(2, PasswordMin)),
                    name |-> Str(4), role |-> r]}
    /\ nextUserId = 2
    /\ passwordSet = [i \in Users |->
                        IF i = 1 THEN Password(2, PasswordMin) ELSE Absent]
    /\ interviews = {}
    /\ nextInterviewId = 1
    /\ bookmarks = {}
    /\ nextBookmarkId = 1
    /\ toggles = [u \in Users |-> [j \in JobIdSpace |-> 0]]
    /\ pending = [s \in Slots |-> Idle]
    /\ serving = TRUE
    /\ seeder = SeederOff
    /\ last = NoRequest

NextRoles ==
    \/ \E b \in AuthBodies(Emails, {Password(2, PasswordMin)}, {Str(4)},
                           RoleInputs) : RegisterBody(b)
    \/ \E t \in AccessTokens :
          \E b \in AuthBodies(ArgsFor(t, Emails \cup {Absent}), {Absent},
                              ArgsFor(t, {Str(4), Absent}), RoleInputs) :
             UpdateProfileBody(t, b)

SpecRoles == InitRoles /\ [][NextRoles]_vars

\* Leaving: account 1, while stored, applies to job 1, bookmarks and
\* reviews it and records interviews; it is deleted, after which its client
\* sends nothing but further deletions.
LeaverTokens == {t \in AccessTokens : t.present => t.id = 1}
NextLeaving ==
    \/ \E t \in LeaverTokens : Apply(t, 1)
    \/ \E t \in LeaverTokens : ToggleBookmark(t, 1)
    \/ \E t \in LeaverTokens : PostReview(t, 1, Num(RatingMax))
    \/ \E t \in LeaverTokens :
          \E i \in ArgsFor(t, {Num(a) : a \in 1..MaxApplications}) :
             CreateInterview(t, i, Date(1))
    \/ \E t \in CallerTokens : DeleteProfile(t)

SpecLeaving == Init /\ [][NextLeaving]_vars

\* The start of the process, one await of the crawl at a time, on a jobs
\* table that is empty or holds a posted job; once the server listens,
\* job 1 is viewed.
InitCrawl ==
    /\ jobs \in {{}, {[id |-> 1, views |-> 0, body |-> SeedBody(1)]}}
    /\ nextJobId = Cardinality(jobs) + 1
    /\ build = [ormAcceptsArrays |-> FALSE, sqlStrict |-> TRUE]
    /\ reviews = {}
    /\ nextReviewId = 1
    /\ viewed = [i \in JobIdSpace |-> 0]
    /\ applications = {}
    /\ nextApplicationId = 1
    /\ users = RegisteredUsers
    /\ nextUserId = MaxUsers + 1
    /\ passwordSet = [i \in Users |-> Password(2, PasswordMin)]
    /\ interviews = {}
    /\ nextInterviewId = 1
    /\ bookmarks = {}
    /\ nextBookmarkId = 1
    /\ toggles = [u \in Users |-> [j \in JobIdSpace |-> 0]]
    /\ pending = [s \in Slots |-> Idle]
    /\ serving = FALSE
    /\ seeder = [SeederOff EXCEPT !.pc = "count"]
    /\ last = NoRequest

NextCrawl ==
    \/ CrawlCount
    \/ CrawlRecreate
    \/ FetchPage(Pages)
    \/ CrawlReturn(Pages)
    \/ Listen
    \/ \E l \in ItemLinks : ItemLookup(l)
    \/ \E l \in ItemLinks : ItemInsert(l)
    \/ serving /\ ViewJob(MakeToken(TRUE, FALSE, 1, "user"), 1)

SpecCrawl == InitCrawl /\ [][NextCrawl]_vars

\* ---------------------------------------------------------------- claims
RowsOf(table, userId, jobId) ==
    {a \in table : a.userId = userId /\ a.jobId = jobId}

IsApply(u, j) == last'.op = "apply" /\ last'.user = u /\ last'.arg = j
IsWithdraw(u, i) == last'.op = "withdraw" /\ last'.user = u /\ last'.arg = i

\* C1: when user U applies to an existing job J for which U already holds a
\* submitted application (U applied and has not withdrawn since), the call is
\* answered 400 and exactly one row for (U, J) is stored, in status submitted.
C1_SecondApplyRejected ==
    [][\A u \in Users, j \in ApplyArgs :
        (/\ IsApply(u, j)
         /\ JobExists(j)
         /\ \E a \in RowsOf(applications, u, j) : a.status = Submitted)
        => /\ last'.status = 400
           /\ Cardinality(RowsOf(applications', u, j)) = 1
           /\ \A a \in RowsOf(applications', u, j) : a.status = Submitted]_vars

\* The second of two consecutive applies has been answered 400.
C1_Witness ==
    /\ last.op = "apply" /\ last.status = 400 /\ last.user \in Users
    /\ \E a \in RowsOf(applications, last.user, last.arg) : a.status = Submitted

\* C2: there is never more than one row per (U, J); a row keeps its id through
\* withdraw and re-apply; and an apply that finds the pair's row withdrawn is
\* answered 200 and leaves that same row, and only it, for the pair, submitted.
C2_ReapplyFlipsSameRow ==
    [][\A u \in Users, j \in 1..SeedJobs :
        /\ Cardinality(RowsOf(applications', u, j)) <= 1
        /\ RowsOf(applications, u, j) # {}
              => {a.id : a \in RowsOf(applications', u, j)} =
                 {a.id : a \in RowsOf(applications, u, j)}
        /\ \A a \in RowsOf(applications, u, j) :
              (IsApply(u, j) /\ a.status = Withdrawn)
              => /\ last'.status = 200
                 /\ RowsOf(applications', u, j) =
                        {[a EXCEPT !.status = Submitted]}]_vars

\* An apply after a withdrawal has been answered 200.
C2_Witness ==
    /\ last.op = "apply" /\ last.status = 200
    /\ \E a \in RowsOf(applications, last.user, last.arg) : a.status = Submitted

\* C3: every stored status is submitted or withdrawn; a request changes a
\* row's status only from submitted to withdrawn (a withdraw) or from withdrawn
\* to submitted (an apply); a new row is created by an apply, submitted.
C3_StatusTransitions ==
    [][\A b \in applications' :
        /\ b.status \in {Submitted, Withdrawn}
        /\ \/ b \in applications
           \/ /\ \A a \in applications : a.id # b.id
              /\ b.status = Submitted
              /\ last'.op = "apply"
           \/ \E a \in applications :
                /\ b = [a EXCEPT !.status = b.status]
                /\ \/ a.status = Submitted /\ b.status = Withdrawn
                      /\ last'.op = "withdraw"
                   \/ a.status = Withdrawn /\ b.status = Submitted
                      /\ last'.op = "apply"]_vars

\* Both transitions have been taken: one row is withdrawn, another was just
\* flipped back to submitted.
C3_Witness ==
    /\ last.op = "apply" /\ last.status = 200
    /\ \E a \in applications : a.status = Withdrawn
    /\ \E a \in applications : a.status = Submitted

\* C4: a withdraw request by B that names an application of another user A
\* changes no application of A and is answered with an error.
C4_ForeignWithdrawRejected ==
    [][\A a \in applications, b \in Users :
        (IsWithdraw(b, a.id) /\ a.userId # b)
        => /\ \A x \in applications : x.userId # b => x \in applications'
           /\ last'.status >= 400]_vars

\* C5: DELETE /applications/:id by U withdraws exactly the application whose
\* id is :id when it is U's, answers 404 when no application has that id, and
\* 403 when the application with that id belongs to another user.
C5_WithdrawByApplicationId ==
    [][\A u \in Users, i \in WithdrawArgs :
        IsWithdraw(u, i)
        => LET named == {a \in applications : a.id = i} IN
           /\ named = {} => last'.status = 404 /\ applications' = applications
           /\ \A a \in named :
                IF a.userId = u
                THEN applications' = (applications \ {a}) \cup
                                     {[a EXCEPT !.status = Withdrawn]}
                ELSE last'.status = 403 /\ applications' = applications]_vars

IsJobRequest(op, i) == last'.op = op /\ last'.arg = i /\ last'.user # NoUser

\* C6: a job's stored views counter equals the number of detail views answered
\* 200 since its creation or its last edit answered 200: a detail view of an
\* existing job is answered 200 and adds exactly 1 to that job's counter only,
\* an edit answered 200 leaves the counter at 0, and a detail view of an id
\* that does not exist is answered 404 and changes no row.
C6_ViewsCounter ==
    [][/\ \A j \in jobs' : j.views = viewed'[j.id]
       /\ \A i \in JobArgs :
            /\ IsJobRequest("view", i) =>
                 IF JobsWithId(i) = {}
                 THEN last'.status = 404 /\ jobs' = jobs
                 ELSE /\ last'.status = 200
                      /\ \A j \in JobsWithId(i) :
                           jobs' = (jobs \ {j}) \cup
                                   {[j EXCEPT !.views = j.views + 1]}
            /\ (IsJobRequest("edit", i) /\ last'.status = 200) =>
                 /\ \A j \in jobs' : j.id = i => j.views = 0
                 /\ \A j \in jobs : j.id # i => j \in jobs']_vars

\* A job that was edited has been viewed since, and its counter says 1.
C6_Witness ==
    /\ last.op = "view" /\ last.status = 200
    /\ \E j \in jobs : j.id = last.arg /\ j.views = 1 /\ j.body \in ValidBodies

\* The keys of a body whose value breaks the schema's rule for the key.
BrokenFields(body) ==
    {SchemaKeys[i] : i \in {k \in 1..Len(SchemaKeys) :
                               FieldErrors(SchemaKeys[k], body[SchemaKeys[k]]) # <<>>}}

\* C7: a create or edit request whose body breaks the schema is answered 400
\* with one message for every broken key, and the jobs table is left as it was.
C7_InvalidBodyRejected ==
    [][(/\ last'.op \in {"create", "edit"}
        /\ last'.user # NoUser
        /\ BrokenFields(last'.body) # {})
       => /\ last'.status = 400
          /\ {last'.msgs[k][1] : k \in 1..Len(last'.msgs)} = BrokenFields(last'.body)
          /\ Len(last'.msgs) = Cardinality(BrokenFields(last'.body))
          /\ jobs' = jobs
          /\ nextJobId' = nextJobId]_vars

\* An edit with two broken keys, naming a job that has been viewed, was
\* answered 400.
C7_Witness ==
    /\ last.op = "edit" /\ last.status = 400 /\ Len(last.msgs) = 2
    /\ \E j \in jobs : j.id = last.arg /\ j.views > 0

\* The rating is a number from 1 to 5.
RatingInRange(rating) ==
    rating.k = "num" /\ rating.v >= RatingMin /\ rating.v <= RatingMax

\* C8: a review post whose rating is not within [1,5] (a missing or
\* non-numeric rating included) is answered 4xx and stores no row, and every
\* stored review has a rating in [1,5].
C8_RatingOutOfRangeRejected ==
    [][/\ \A r \in reviews' : r.rating \in RatingMin..RatingMax
       /\ (/\ last'.op = "review"
           /\ last'.user # NoUser
           /\ ~RatingInRange(last'.body.rating))
          => /\ last'.status \in 400..499
             /\ reviews' = reviews]_vars

\* The header holds a JWT signed with the secret whose exp has not passed.
ValidToken(token) ==
    token.present /\ token.jwt /\ token.sigOk /\ ~token.expired

\* The header holds a JWT signed with the secret whose exp has passed.
ExpiredToken(token) ==
    token.present /\ token.jwt /\ token.sigOk /\ token.expired

IsGated(r) == \E i \in 1..Len(r.chain) : r.chain[i].mw = "authenticateJWT"
RouteNamed(name) == CHOOSE r \in Routes : r.route = name
IsDispatch == last'.op \in {r.route : r \in Routes}

\* C9: for every request to a gated route the gate either sends exactly
\* one error response and does not call next (403 for no credential, 401 for
\* an expired one, 403 for any other failure; never 401 otherwise), or sends
\* nothing, sets req.user to the decoded claims and calls next exactly once.
C9_GateExactlyOne ==
    [][(IsDispatch /\ IsGated(RouteNamed(last'.op)))
       => LET req == last'.body
              token == req.token
          IN IF ValidToken(token)
             THEN /\ req.gateSent = <<>>
                  /\ req.gateNexts = 1
                  /\ req.claims = [id |-> token.id, role |-> token.role]
             ELSE /\ req.gateNexts = 0
                  /\ req.handlerRuns = 0
                  /\ req.claims = NoClaims
                  /\ req.gateSent =
                        <<IF ExpiredToken(token) THEN 401 ELSE 403>>]_vars

C9_Witness ==
    /\ last.op = "GET /jobs"
    /\ ExpiredToken(last.body.token)
    /\ last.body.gateSent = <<401>>
    /\ last.body.handlerRuns = 0

\* C10 as stated: on every route other than login and register a request
\* without a valid credential never reaches the handler, reads no stored
\* data and changes no stored state.
C10_AllButLoginRegisterGated ==
    [][(/\ IsDispatch
        /\ last'.op \notin {"POST /auth/login", "POST /auth/register"}
        /\ ~ValidToken(last'.body.token))
       => /\ last'.body.handlerRuns = 0
          /\ last'.body.store = "none"
          /\ UNCHANGED <<jobVars, appVars, reviewVars>>]_vars

\* The routes that run no gate.
Ungated ==
    {"POST /auth/login", "POST /auth/register", "POST /auth/refresh",
     "GET /api-docs", "GET /"}

\* C10 amended: on every route other than login, register, refresh, the
\* API documentation and the banner a request without a valid credential
\* never reaches the handler, reads no stored data and changes no stored
\* state; refresh, the documentation and the banner run their handler
\* without the gate and touch no stored data.
C10_GatedExceptUngated ==
    [][IsDispatch
       => /\ (last'.op \notin Ungated /\ ~ValidToken(last'.body.token))
             => /\ last'.body.handlerRuns = 0
                /\ last'.body.store = "none"
                /\ UNCHANGED <<jobVars, appVars, reviewVars>>
          /\ (last'.op \in Ungated \ {"POST /auth/login", "POST /auth/register"})
             => /\ last'.body.handlerRuns = 1
                /\ last'.body.store = "none"
                /\ UNCHANGED <<jobVars, appVars, reviewVars>>]_vars

C10_Witness ==
    /\ last.op = "DELETE /jobs/:id"
    /\ last.body.token.present
    /\ ~last.body.token.sigOk
    /\ last.body.sent = <<403>>
    /\ last.body.handlerRuns = 0

\* A request with this token to this route reaches the route's handler.
Admits(r, token) ==
    RunChain(r.chain, 1, TRUE, NewRequest(token)).handlerRuns = 1

\* C11: the access token a successful refresh issues carries the claims of
\* the access token login issues for the same account, and every route whose
\* chain lets the login token through to the handler lets the refreshed one
\* through too.
C11_RefreshedTokenRefinesLogin ==
    [][(last'.op = "refresh" /\ last'.status = 200)
        => \A u \in users :
              u.id = last'.user
              => LET new == last'.body.tokens[1]
                     login == SignToken(Payload(u), "1h")
                 IN /\ ClaimsOf(new) = ClaimsOf(login)
                    /\ \A r \in Routes : Admits(r, login) => Admits(r, new)]_vars

\* C12: a login with a well-formed email succeeds exactly when an account
\* with that email is stored and the password sent is the one most recently
\* set for it; a well-formed request for an unknown email is answered 404 and
\* one with another password than the account's 400; no failure carries a
\* token; a success carries an access and a refresh token with equal claims.
C12_LoginMatchesLastPassword ==
    [][(last'.op = "login" /\ last'.body.email.k = "email")
        => LET e == last'.body.email
               p == last'.body.password
               known == \E u \in users : u.email = e
               right == \E u \in users : u.email = e /\ passwordSet[u.id] = p
           IN /\ (last'.status = 200) <=> right
              /\ (InputOk(e, p) /\ ~known) => last'.status = 404
              /\ (InputOk(e, p) /\ known /\ ~right) => last'.status = 400
              /\ last'.status # 200 => last'.body.tokens = <<>>
              /\ last'.status = 200
                    => /\ Len(last'.body.tokens) = 2
                       /\ ClaimsOf(last'.body.tokens[1]) =
                          ClaimsOf(last'.body.tokens[2])]_vars

\* C13: no two stored users have the same email, and a register for an email
\* that is stored, or a profile update to an email another account holds, is
\* answered with a 4xx status and leaves the users table as it was.
C13_DuplicateEmailRejected ==
    [][/\ \A u, v \in users' : u.email = v.email => u = v
       /\ (/\ last'.op \in {"register", "profile"}
           /\ last' # last
           /\ last'.body # EmptyBody
           /\ \E u \in users : u.email = last'.body.email /\ u.id # last'.user)
          => /\ last'.status \in 400..499
             /\ users' = users]_vars

IsList(role) ==
    last'.op = "list" /\ last'.status = 200 /\ last'.body.role = role

\* C14: whatever status, jobId and userId a caller of role user puts in the
\* query of GET /applications, every application in the answer is the
\* caller's own and none carries the applicant's name and email.
C14_UserListsOwnOnly ==
    [][IsList("user")
        => \A e \in last'.body.data :
              e.userId = last'.user /\ e.user = Absent]_vars

\* A user asked for another user's applications, that user has some, and the
\* answer holds the caller's own.
C14_Witness ==
    /\ last.op = "list" /\ last.status = 200 /\ last.body.role = "user"
    /\ last.body.query.userId \notin {Absent, Num(last.user)}
    /\ \E a \in applications : Num(a.userId) = last.body.query.userId
    /\ last.body.data # {}

\* C15: a caller of role companyuser or admin who puts another user's id in
\* the userId parameter of GET /applications gets that user's applications,
\* each with the applicant's name and email.
C15_CompanyListsOthers ==
    [][\A v \in Users :
        (/\ IsList("companyuser") \/ IsList("admin")
         /\ v # last'.user
         /\ last'.body.query =
               [status |-> Absent, jobId |-> Absent, userId |-> Num(v)])
        => last'.body.data =
              {[userId |-> a.userId, jobId |-> a.jobId, status |-> a.status,
                user |-> Applicant(a.userId)] :
                  a \in {x \in applications : x.userId = v}}]_vars

RECURSIVE SumCounts(_)
SumCounts(data) ==
    IF data = {} THEN 0
    ELSE LET e == CHOOSE x \in data : TRUE IN e.count + SumCounts(data \ {e})

C17_InterviewByOwnerOnly ==
    [][/\ \A r \in interviews' \ interviews :
             /\ last'.op = "interview" /\ last'.status = 201
             /\ \E a \in applications :
                   /\ a.id = r.applicationId
                   /\ a.userId = last'.user
                   /\ r.userId = a.userId
       /\ (/\ last'.op = "interview"
           /\ last' # last
           /\ last'.body # EmptyBody
           /\ last'.body.applicationId # Absent
           /\ ~\E a \in applications :
                  a.id = last'.arg /\ a.userId = last'.user)
          => last'.status = 403 /\ interviews' = interviews]_vars

\* An interview is stored, and a user naming another user's application has
\* just been refused.
C17_Witness ==
    /\ interviews # {}
    /\ last.op = "interview" /\ last.status = 403
    /\ \E a \in applications : a.id = last.arg /\ a.userId # last.user

\* C18: after n answered POST /bookmarks of user U for job J, U has n mod 2
\* bookmarks of J; the n-th is answered 201 when n is odd and 200 when n is
\* even; and a toggle leaves the bookmarks of every other pair as they were.
C18_ToggleInvolution ==
    [][/\ \A u \in Users, j \in 1..SeedJobs :
             Cardinality(RowsOf(bookmarks', u, j)) = toggles'[u][j] % 2
       /\ \A u \in Users, j \in 1..SeedJobs :
             toggles'[u][j] # toggles[u][j]
             => /\ last'.op = "bookmark" /\ last'.user = u /\ last'.arg = j
                /\ last'.status = IF toggles'[u][j] % 2 = 1 THEN 201 ELSE 200
                /\ \A b \in bookmarks \cup bookmarks' :
                      (b.userId # u \/ b.jobId # j)
                      => b \in bookmarks /\ b \in bookmarks']_vars

\* A user's third toggle of a job has been answered 201 and left one
\* bookmark, while another user's bookmark of the job is stored.
C18_Witness ==
    /\ last.op = "bookmark" /\ last.status = 201
    /\ \E u \in Users, j \in 1..SeedJobs :
          /\ last.user = u /\ last.arg = j
          /\ toggles[u][j] = 3
          /\ Cardinality(RowsOf(bookmarks, u, j)) = 1
          /\ \E b \in bookmarks : b.userId # u

\* C19: a start of the server that finds a row in jobs leaves the table and
\* its counter as they are, drops nothing, requests no page and inserts
\* nothing.
C19_CrawlSkipsSeededStore ==
    [][(~serving /\ serving' /\ jobs # {})
        => /\ jobs' = jobs
           /\ nextJobId' = nextJobId
           /\ last'.op = "crawl"
           /\ last'.body = [dropped |-> FALSE, fetched |-> 0, inserted |-> 0]]_vars

\* The server has started on a table with a row in it, after an earlier
\* start filled the table.
C19_Witness ==
    /\ serving /\ jobs # {}
    /\ last.op = "crawl" /\ last.body.fetched = 0

\* C20: the applications table never holds more than one row for a user and
\* a job, also when applies of the same user to the same job overlap.
C20_OneRowPerPair ==
    \A u \in Users, j \in 1..SeedJobs :
        Cardinality(RowsOf(applications, u, j)) <= 1

\* C21: an interview is stored with interview_status equal to the status its
\* application has at the time, and every later step leaves the
\* interview_status of every stored interview as it was.
C21_InterviewStatusSnapshot ==
    [][\A r \in interviews' :
          IF \E q \in interviews : q.id = r.id
          THEN \A q \in interviews : q.id = r.id
                  => r.interview_status = q.interview_status
          ELSE \E a \in applications :
                  a.id = r.applicationId /\ r.interview_status = a.status]_vars

\* An interview recorded while its application was submitted is stored,
\* still submitted, and the application has been withdrawn since.
C21_Witness ==
    \E r \in interviews : \E a \in applications :
        /\ a.id = r.applicationId
        /\ r.interview_status = Submitted
        /\ a.status = Withdrawn
        /\ last.op = "withdraw" /\ last.status = 200

C30_RefreshNeedsRefreshToken ==
    [][(last'.op = "refresh" /\ last'.status = 200)
        => \E u \in users :
              last'.body.presented = SignToken(Payload(u), "7d")]_vars

\* C29: a user that a step adds is stored with the role 'user', whatever the
\* body of the request says, and no step changes the role of a user that
\* stays stored.
C29_RoleFixedAtUser ==
    [][\A u \in users' :
          IF \E q \in users : q.id = u.id
          THEN \A q \in users : q.id = u.id => u.role = q.role
          ELSE u.role = "user"]_vars

\* A registered user is stored next to an account whose role is not 'user',
\* and a profile update has just been answered 200 and changed an email.
C29_Witness ==
    /\ \E u \in users : u.id > 1 /\ u.role = "user"
    /\ \E u \in users : u.id = 1 /\ u.role # "user"
    /\ last.op = "profile" /\ last.status = 200
    /\ \E u \in users : u.id = last.user /\ u.email # Email(u.id)

\* C27: when DELETE /auth/profile is answered 200, no application,
\* interview, bookmark or review that was the caller's is stored any more.
C27_DeletionCascades ==
    [][(last'.op = "unregister" /\ last'.status = 200)
        => /\ \A a \in applications : a.userId = last'.user
                 => ~\E b \in applications' : b.id = a.id
           /\ \A a \in interviews : a.userId = last'.user
                 => ~\E b \in interviews' : b.id = a.id
           /\ \A a \in bookmarks : a.userId = last'.user
                 => ~\E b \in bookmarks' : b.id = a.id
           /\ \A a \in reviews : a.userId = last'.user
                 => ~\E b \in reviews' : b.id = a.id]_vars

\* C23: the jobs table never holds two rows with one link, and a step that
\* adds a row adds one whose link no stored row has.
C23_LinkStoredOnce ==
    [][/\ \A a \in jobs' : \A b \in jobs' :
             a.body.link = b.body.link => a.id = b.id
       /\ \A a \in jobs' :
             (~\E b \in jobs : b.id = a.id)
             => ~\E b \in jobs : b.body.link = a.body.link]_vars

\* Two items with one link both found no row; the first was stored, and the
\* insert of the second has just been refused.
C23_Witness ==
    /\ last.op = "insert" /\ last.status = 409
    /\ \E j \in jobs : j.body.link = Uri(last.arg)

C25_ForeignKeyChecksRestored ==
    seeder.pc = "returned" => seeder.fkChecks

\* C26: a row the crawl stores comes from an item that has a title, a
\* company and an href.
C26_IncompleteItemDiscarded ==
    [][\A a \in jobs' :
          (~\E b \in jobs : b.id = a.id) => a.body.link # Uri(NoHref)]_vars

\* C28: while the server listens, no item of the crawl waits on the
\* database.
C28_ListenAfterSeeding ==
    serving => InFlight = {}

============================================================================
